---- MODULE Spec2Model ----
(***************************************************************************)
(* Audio synthesis and assembly engine of openclaw-knowledge-radio:        *)
(*   src/utils/text.py        chunk_text, _split_buf                        *)
(*   src/outputs/tts_edge.py  _save_one, tts_text_to_mp3_chunked            *)
(*   src/outputs/audio.py     concat_mp3_with_transitions                   *)
(*   run_daily.py             segment grouping and timestamp reconstruction *)
(* A text is a sequence of one-character strings.                          *)
(***************************************************************************)
EXTENDS Integers, Sequences, FiniteSets, TLC

VARIABLES
    \* chunk_text (src/utils/text.py)
    ct_pc, ct_text, ct_max, ct_out,
    \* _save_one (src/outputs/tts_edge.py)
    so_pc, so_voice, so_vi, so_attempt, so_log, so_sleeps, so_last_err,
    \* tts_text_to_mp3_chunked (src/outputs/tts_edge.py)
    tts_pc, tts_text, chunk_chars, tts_queue, tts_stack, counter, part_files,
    tts_disk, tts_calls, tts_failures,
    \* _pick_split_point (src/outputs/tts_edge.py)
    pk_pc, pk_text, pk_cut,
    \* concat_mp3_with_transitions (src/outputs/audio.py)
    cc_pc, groups, cc_seq, cc_files, cc_cmd,
    \* _split_mp3_into_size_limited_parts (src/outputs/audio.py)
    sp_pc, sp_size, sp_duration, seg_dur, sp_t, cur_dur, tries, sp_over, out_files,
    cuts,
    \* main (run_daily.py)
    run_errors, run_pc, raw_segments_all, seg_i, raw_seg_to_group, unit_dur,
    raw_durs, group_ts, entries, items_file

VARIABLES
    co_pc, REGEN_FROM_CACHE, DEBUG_MODE, max_workers, seed_file, seen_file, seen_before,
    seen_ids, seen_saves, items, candidates, new_items, futures, ranked

varsChunk == <<ct_pc, ct_text, ct_max, ct_out>>
varsSave == <<so_pc, so_voice, so_vi, so_attempt, so_log, so_sleeps, so_last_err>>
varsTts == <<tts_pc, tts_text, chunk_chars, tts_queue, tts_stack, counter, part_files,
             tts_disk, tts_calls, tts_failures>>
varsConcat == <<cc_pc, groups, cc_seq, cc_files, cc_cmd>>
varsRun == <<run_pc, raw_segments_all, seg_i, raw_seg_to_group, unit_dur,
             raw_durs, group_ts, entries, items_file>>
varsSplit == <<sp_pc, sp_size, sp_duration, seg_dur, sp_t, cur_dur, tries, sp_over,
               out_files, cuts>>
varsPick == <<pk_pc, pk_text, pk_cut>>
varsCollect == <<co_pc, REGEN_FROM_CACHE, DEBUG_MODE, max_workers, seed_file, seen_file,
                 seen_before, seen_ids, seen_saves, items, candidates, new_items, futures,
                 ranked>>
vars == <<varsChunk, varsSave, varsTts, varsPick, varsConcat, varsSplit, run_errors, varsRun,
          varsCollect>>

----------------------------------------------------------------------------
(* Bounds of the model *)

\* longest input text given to chunk_text
MaxTextLen == 5
\* largest max_chars given to chunk_text
MaxChars == 3
\* most paragraphs in a text given to tts_text_to_mp3_chunked
MaxParas == 2
\* most groups given to concat_mp3_with_transitions
MaxGroups == 3
\* most units in one group given to concat_mp3_with_transitions
MaxUnits == 2
\* most segments in the script of one run
MaxSegs == 2
\* longest short text handed to _pick_split_point
MaxPickLen == 7

----------------------------------------------------------------------------
(* Characters and str helpers *)

NL == "\n"
\* characters str.strip() removes and str.isspace() accepts
Whitespace == {" ", NL}
\* the character class of _sentence_end, r"([.!?。！？])"
SentenceEnd == {".", "!", "?"}

Min2(a, b) == IF a <= b THEN a ELSE b
Max2(a, b) == IF a >= b THEN a ELSE b
\* abs(x)
Abs(x) == IF x < 0 THEN -x ELSE x
\* the text made of n copies of the character c
Rep(c, n) == [i \in 1..n |-> c]

SetMin(S) == CHOOSE x \in S : \A y \in S : x <= y
SetMax(S) == CHOOSE x \in S : \A y \in S : x >= y

\* s[a:b] of Python on a 1-based sequence: the characters a+1 .. b (0 <= a)
Slice(s, a, b) == SubSeq(s, a + 1, IF b > Len(s) THEN Len(s) ELSE b)

\* str.strip()
Strip(s) ==
    LET n == Len(s)
    IN  IF \A i \in 1..n : s[i] \in Whitespace THEN <<>>
        ELSE LET first == CHOOSE i \in 1..n :
                              s[i] \notin Whitespace /\ \A j \in 1..(i - 1) : s[j] \in Whitespace
                 last == CHOOSE i \in 1..n :
                             s[i] \notin Whitespace /\ \A j \in (i + 1)..n : s[j] \in Whitespace
             IN  SubSeq(s, first, last)

\* str.splitlines() for the line boundary "\n"
RECURSIVE SplitLines(_)
SplitLines(s) ==
    IF s = <<>> THEN <<>>
    ELSE LET nl == {i \in 1..Len(s) : s[i] = NL}
         IN  IF nl = {} THEN <<s>>
             ELSE LET k == SetMin(nl)
                  IN  <<SubSeq(s, 1, k - 1)>> \o SplitLines(SubSeq(s, k + 1, Len(s)))

\* _sentence_end.split(buf): the pattern has one capturing group, so the result
\* alternates text, terminator, text, ..., with empty texts kept
RECURSIVE SentenceSplit(_)
SentenceSplit(s) ==
    LET ps == {i \in 1..Len(s) : s[i] \in SentenceEnd}
    IN  IF ps = {} THEN <<s>>
        ELSE LET k == SetMin(ps)
             IN  <<SubSeq(s, 1, k - 1), <<s[k]>>>> \o SentenceSplit(SubSeq(s, k + 1, Len(s)))

\* "".join(parts)
RECURSIVE Concat(_)
Concat(ss) == IF ss = <<>> THEN <<>> ELSE Head(ss) \o Concat(Tail(ss))

\* the text with every whitespace character removed
RECURSIVE NoSpace(_)
NoSpace(s) ==
    IF s = <<>> THEN <<>>
    ELSE IF Head(s) \in Whitespace THEN NoSpace(Tail(s))
         ELSE <<Head(s)>> \o NoSpace(Tail(s))

----------------------------------------------------------------------------
(* src/utils/text.py *)

\* the token loop of _split_buf: pack tokens into cur while they fit
RECURSIVE SplitBufTokens(_, _, _, _)
SplitBufTokens(tokens, cur, parts, max_chars) ==
    IF tokens = <<>>
    THEN IF Strip(cur) # <<>> THEN Append(parts, Strip(cur)) ELSE parts
    ELSE LET token == Head(tokens)
         IN  IF token = <<>> THEN SplitBufTokens(Tail(tokens), cur, parts, max_chars)
             ELSE IF Len(cur) + Len(token) <= max_chars
                  THEN SplitBufTokens(Tail(tokens), cur \o token, parts, max_chars)
                  ELSE SplitBufTokens(Tail(tokens), token,
                                      IF Strip(cur) # <<>> THEN Append(parts, Strip(cur)) ELSE parts,
                                      max_chars)

\* a hard cut that strides one character too far and so drops a character
HardCutSkips(p, max_chars) ==
    [k \in 1..((Len(p) + max_chars) \div (max_chars + 1)) |->
        Slice(p, (k - 1) * (max_chars + 1), (k - 1) * (max_chars + 1) + max_chars)]

\* [p[i:i+max_chars] for i in range(0, len(p), max_chars)]
HardCut(p, max_chars) ==
    [k \in 1..((Len(p) + max_chars - 1) \div max_chars) |->
        Slice(p, (k - 1) * max_chars, k * max_chars)]

\* the second loop of _split_buf: parts that are still too long are hard-cut
RECURSIVE SplitBufOut(_, _)
SplitBufOut(parts, max_chars) ==
    IF parts = <<>> THEN <<>>
    ELSE (IF Len(Head(parts)) <= max_chars THEN <<Head(parts)>>
          ELSE HardCut(Head(parts), max_chars))
         \o SplitBufOut(Tail(parts), max_chars)

\* _split_buf without its final hard cut of the parts that are too long
SplitBufNoHardCut(buf0, max_chars) ==
    LET buf == Strip(buf0)
    IN  IF buf = <<>> THEN <<>>
        ELSE IF Len(buf) <= max_chars THEN <<buf>>
        ELSE SplitBufTokens(SentenceSplit(buf), <<>>, <<>>, max_chars)

_split_buf(buf0, max_chars) ==
    LET buf == Strip(buf0)
    IN  IF buf = <<>> THEN <<>>
        ELSE IF Len(buf) <= max_chars THEN <<buf>>
        ELSE SplitBufOut(SplitBufTokens(SentenceSplit(buf), <<>>, <<>>, max_chars), max_chars)

\* the line loop of chunk_text; the result is <<buf, chunks>>
RECURSIVE ChunkLines(_, _, _, _)
ChunkLines(lines, buf, chunks, max_chars) ==
    IF lines = <<>> THEN <<buf, chunks>>
    ELSE LET add == Strip(Head(lines))
             candidate == IF buf # <<>> THEN Strip(buf \o <<NL>> \o add) ELSE add
         IN  IF Len(candidate) <= max_chars
             THEN ChunkLines(Tail(lines), candidate, chunks, max_chars)
             ELSE ChunkLines(Tail(lines), add, chunks \o _split_buf(buf, max_chars), max_chars)

\* [c.strip() for c in chunks if c.strip()]
RECURSIVE StripKeep(_)
StripKeep(chunks) ==
    IF chunks = <<>> THEN <<>>
    ELSE (IF Strip(Head(chunks)) # <<>> THEN <<Strip(Head(chunks))>> ELSE <<>>)
         \o StripKeep(Tail(chunks))

chunk_text(text0, max_chars) ==
    LET text == Strip(text0)
    IN  IF text = <<>> THEN <<>>
        ELSE LET r == ChunkLines(SplitLines(text), <<>>, <<>>, max_chars)
                 buf == r[1]
                 chunks == IF Strip(buf) # <<>> THEN r[2] \o _split_buf(buf, max_chars) ELSE r[2]
             IN  StripKeep(chunks)

----------------------------------------------------------------------------
(* Calls of chunk_text on every text over a small alphabet *)

ChunkAlphabet == {"a", "b", " ", ".", NL}

TextsUpTo(alphabet, n) == UNION {[1..k -> alphabet] : k \in 0..n}

ChunkStart ==
    /\ ct_pc = "call"
    /\ ct_text \in TextsUpTo(ChunkAlphabet, MaxTextLen)
    /\ ct_max \in 1..MaxChars
    /\ ct_out = <<>>

ChunkIdle ==
    /\ ct_pc = "idle"
    /\ ct_text = <<>>
    /\ ct_max = 1
    /\ ct_out = <<>>

CallChunkText ==
    /\ ct_pc = "call"
    /\ ct_out' = chunk_text(ct_text, ct_max)
    /\ ct_pc' = "done"
    /\ UNCHANGED <<ct_text, ct_max>>

----------------------------------------------------------------------------
(* src/outputs/tts_edge.py: _save_one *)

\* the fallback voices of _voice_candidates
CommonVoices == <<"en-US-GuyNeural", "en-US-AriaNeural", "en-GB-RyanNeural", "en-GB-SoniaNeural">>

\* the secondary engine, tried after every Edge voice
GTTS == "gTTS"

\* the candidate list without the filter that removes the primary voice
VoiceCandidatesUnfiltered(primary) == <<primary>> \o CommonVoices

\* [primary] + [v for v in common if v != primary]
_voice_candidates(primary) ==
    <<primary>> \o SelectSeq(CommonVoices, LAMBDA v : v # primary)

\* for attempt in range(1, 4)
Attempts == 1..3

\* 0.8 * attempt seconds, in tenths of a second
SleepTenths(attempt) == 8 * attempt

\* the voices a caller may configure: each fallback voice, and one that is no fallback
PrimaryVoices == {CommonVoices[i] : i \in 1..Len(CommonVoices)} \cup {"zh-CN-XiaoxiaoNeural"}

SaveStart ==
    /\ so_pc = "edge"
    /\ so_voice \in PrimaryVoices
    /\ so_vi = 1
    /\ so_attempt = 1
    /\ so_log = <<>>
    /\ so_sleeps = <<>>
    /\ so_last_err = 0

SaveIdle ==
    /\ so_pc = "idle"
    /\ so_voice = ""
    /\ so_vi = 0
    /\ so_attempt = 0
    /\ so_log = <<>>
    /\ so_sleeps = <<>>
    /\ so_last_err = 0

\* one pass of the inner loop body succeeds: communicate.save returns, _save_one returns
EdgeAttemptOk ==
    /\ so_pc = "edge"
    /\ so_log' = Append(so_log, [cand |-> _voice_candidates(so_voice)[so_vi],
                                 attempt |-> so_attempt, ok |-> TRUE])
    /\ so_pc' = "returned"
    /\ UNCHANGED <<so_voice, so_vi, so_attempt, so_sleeps, so_last_err>>

\* one pass of the inner loop body raises: last_err = e, sleep, next attempt or voice
EdgeAttemptFails ==
    /\ so_pc = "edge"
    /\ so_log' = Append(so_log, [cand |-> _voice_candidates(so_voice)[so_vi],
                                 attempt |-> so_attempt, ok |-> FALSE])
    /\ so_last_err' = Len(so_log) + 1
    /\ so_sleeps' = Append(so_sleeps, SleepTenths(so_attempt))
    /\ IF so_attempt + 1 \in Attempts
       THEN /\ so_attempt' = so_attempt + 1
            /\ UNCHANGED <<so_vi, so_pc>>
       ELSE /\ so_attempt' = 1
            /\ so_vi' = so_vi + 1
            /\ so_pc' = IF so_vi + 1 <= Len(_voice_candidates(so_voice)) THEN "edge" ELSE "gtts"
    /\ UNCHANGED so_voice

\* the gTTS fallback saves the file: _save_one returns
GttsOk ==
    /\ so_pc = "gtts"
    /\ so_log' = Append(so_log, [cand |-> GTTS, attempt |-> 1, ok |-> TRUE])
    /\ so_pc' = "returned"
    /\ UNCHANGED <<so_voice, so_vi, so_attempt, so_sleeps, so_last_err>>

\* the gTTS fallback raises: its error is dropped and last_err is raised
GttsFails ==
    /\ so_pc = "gtts"
    /\ so_log' = Append(so_log, [cand |-> GTTS, attempt |-> 1, ok |-> FALSE])
    /\ so_pc' = "raised"
    /\ UNCHANGED <<so_voice, so_vi, so_attempt, so_sleeps, so_last_err>>

----------------------------------------------------------------------------
(* src/outputs/tts_edge.py: tts_text_to_mp3_chunked *)

\* int(9.5 * 1024 * 1024)
MAX_BYTES == 9961472
MIN_SPLIT_CHARS == 400
SPLIT_PUNCT == {NL, ".", "!", "?", ";", ",", ":"}

\* a search that also looks at the index mid + window
PickSplitPointInclusive(text) ==
    LET n == Len(text)
        mid == n \div 2
        window == Min2(600, n \div 3)
        hits == {i \in Max2(1, mid - window)..Min2(n - 2, mid + window) :
                    text[i + 1] \in SPLIT_PUNCT}
    IN  IF n < 2 THEN 1
        ELSE IF hits = {} THEN mid
        ELSE LET best_dist == SetMin({Abs(i - mid) : i \in hits})
             IN  SetMin({i \in hits : Abs(i - mid) = best_dist}) + 1

\* the 0-based index _pick_split_point returns
_pick_split_point(text) ==
    LET n == Len(text)
        mid == n \div 2
    IN  IF n < 2 THEN 1
        ELSE LET window == Min2(600, n \div 3)
                 left == Max2(1, mid - window)
                 right == Min2(n - 1, mid + window)
                 \* for i in range(left, right): text[i] in SPLIT_PUNCT
                 hits == {i \in left..(right - 1) : text[i + 1] \in SPLIT_PUNCT}
             IN  IF hits = {} THEN mid
                 ELSE LET best_dist == SetMin({Abs(i - mid) : i \in hits})
                          \* dist < best_dist is strict: the first nearest index stays
                          best_idx == SetMin({i \in hits : Abs(i - mid) = best_dist})
                      IN  Min2(best_idx + 1, n - 1)

\* a split that hands back the halves right before left
SplitTextSwapped(text) ==
    LET mid == Len(text) \div 2
    IN  <<Strip(Slice(text, mid, Len(text))), Strip(Slice(text, 0, mid))>>

\* a split whose right half starts one character after the cut
SplitTextDropsCut(text) ==
    LET cut == _pick_split_point(text)
    IN  <<Strip(Slice(text, 0, cut)), Strip(Slice(text, cut + 1, Len(text)))>>

\* the pair <<a, b>>
_split_text_in_two(text) ==
    LET cut == _pick_split_point(text)
        a == Strip(Slice(text, 0, cut))
        b == Strip(Slice(text, cut, Len(text)))
        mid == Len(text) \div 2
    IN  IF a = <<>> \/ b = <<>>
        THEN <<Strip(Slice(text, 0, mid)), Strip(Slice(text, mid, Len(text)))>>
        ELSE <<a, b>>

\* a synthesized file is kept whatever its text when the length test is off by one
KeepsUnitOffByOne(one_text, size) ==
    size <= MAX_BYTES \/ Len(one_text) <= MIN_SPLIT_CHARS

\* a keep test without the length test: an oversized file is never kept
KeepsUnitNoLengthTest(one_text, size) == size <= MAX_BYTES

\* the two tests after which generate_with_size_limit appends out_path
KeepsUnit(one_text, size) ==
    size <= MAX_BYTES \/ Len(one_text) < MIN_SPLIT_CHARS

\* sizes os.path.getsize may report: at the ceiling and one byte over it
FileSizes == {MAX_BYTES, MAX_BYTES + 1}

\* paragraphs of the narration: under and at the minimum splittable length, and
\* one with a sentence end near its middle
Paragraphs ==
    { Rep("a", MIN_SPLIT_CHARS - 1),
      Rep("a", MIN_SPLIT_CHARS),
      Rep("a", 300) \o <<".", " ">> \o Rep("b", 200) }

\* "\n".join(paras)
RECURSIVE JoinLines(_)
JoinLines(paras) ==
    IF Len(paras) = 1 THEN Head(paras)
    ELSE Head(paras) \o <<NL>> \o JoinLines(Tail(paras))

TtsTexts == {JoinLines(ps) : ps \in UNION {[1..k -> Paragraphs] : k \in 1..MaxParas}}

\* values of cfg["podcast"]["tts_chunk_chars"]: below and above a paragraph pair
ChunkCharsChoices == {450, 1000}

\* texts handed to _pick_split_point: every text of letters and full stops up
\* to MaxPickLen characters, and texts of LongLen letters with one full stop at
\* the edges of the window of 600 around the midpoint
PickAlphabet == {"a", "."}
LongLen == 2000
LongWithStopAt(k) == [i \in 1..LongLen |-> IF i = k + 1 THEN "." ELSE "a"]
LongStops == {399, 400, 1000, 1599, 1600}
PickTexts == TextsUpTo(PickAlphabet, MaxPickLen) \cup {LongWithStopAt(k) : k \in LongStops}

PickStart ==
    /\ pk_pc = "call"
    /\ pk_text \in PickTexts
    /\ pk_cut = 0

PickIdle ==
    /\ pk_pc = "idle"
    /\ pk_text = <<>>
    /\ pk_cut = 0

\* cut = _pick_split_point(text)
CallPickSplitPoint ==
    /\ pk_pc = "call"
    /\ pk_cut' = _pick_split_point(pk_text)
    /\ pk_pc' = "done"
    /\ UNCHANGED pk_text

\* the files of out_dir: part number -> what is stored under part_NNN.mp3
NoFiles == [n \in {} |-> 0]
WriteFile(disk, n, f) == [m \in (DOMAIN disk) \cup {n} |-> IF m = n THEN f ELSE disk[m]]
RemoveFile(disk, n) == [m \in (DOMAIN disk) \ {n} |-> disk[m]]

TtsStart ==
    /\ tts_pc = "gen"
    /\ tts_text \in TtsTexts
    /\ chunk_chars \in ChunkCharsChoices
    /\ tts_queue = chunk_text(tts_text, chunk_chars)
    /\ tts_stack = <<>>
    /\ counter = 0
    /\ part_files = <<>>
    /\ tts_disk = NoFiles
    /\ tts_calls = 0
    /\ tts_failures = 0

TtsIdle ==
    /\ tts_pc = "idle"
    /\ tts_text = <<>>
    /\ chunk_chars = 0
    /\ tts_queue = <<>>
    /\ tts_stack = <<>>
    /\ counter = 0
    /\ part_files = <<>>
    /\ tts_disk = NoFiles
    /\ tts_calls = 0
    /\ tts_failures = 0

\* for ch in chunks: ch = ch.strip(); if not ch: continue; generate_with_size_limit(ch)
ForChunk ==
    /\ tts_pc = "gen"
    /\ tts_stack = <<>>
    /\ tts_queue # <<>>
    /\ tts_stack' = IF Strip(Head(tts_queue)) = <<>> THEN <<>> ELSE <<Strip(Head(tts_queue))>>
    /\ tts_queue' = Tail(tts_queue)
    /\ UNCHANGED <<tts_pc, tts_text, chunk_chars, counter, part_files, tts_disk,
                   tts_calls, tts_failures, run_errors>>

\* generate_with_size_limit(one_text): _save_one wrote out_path and the size passes
\* one of the two tests: the unit is appended
GenKeep ==
    /\ tts_pc = "gen"
    /\ tts_stack # <<>>
    /\ \E size \in FileSizes :
        LET one_text == Head(tts_stack)
            out_path == counter + 1
        IN  /\ KeepsUnit(one_text, size)
            /\ counter' = out_path
            /\ tts_disk' = WriteFile(tts_disk, out_path, [size |-> size, text |-> one_text])
            /\ part_files' = Append(part_files, out_path)
            /\ tts_stack' = Tail(tts_stack)
            /\ tts_calls' = tts_calls + 1
    /\ UNCHANGED <<tts_pc, tts_text, chunk_chars, tts_queue, tts_failures, run_errors>>

\* generate_with_size_limit(one_text): the file is over MAX_BYTES and the text is long
\* enough: the file is removed (os.remove may fail and leave it), the counter goes
\* back by one and the two halves are generated, a before b
GenBisect ==
    /\ tts_pc = "gen"
    /\ tts_stack # <<>>
    /\ \E size \in FileSizes, removed \in BOOLEAN :
        LET one_text == Head(tts_stack)
            out_path == counter + 1
            written == WriteFile(tts_disk, out_path, [size |-> size, text |-> one_text])
            ab == _split_text_in_two(one_text)
        IN  /\ ~KeepsUnit(one_text, size)
            /\ tts_disk' = IF removed THEN RemoveFile(written, out_path) ELSE written
            /\ counter' = out_path - 1
            /\ tts_stack' = <<ab[1], ab[2]>> \o Tail(tts_stack)
            /\ tts_calls' = tts_calls + 1
    /\ UNCHANGED <<tts_pc, tts_text, chunk_chars, tts_queue, part_files, tts_failures,
                   run_errors>>

\* generate_with_size_limit(one_text): _save_one returned and os.path.getsize raises
\* OSError (no file under out_path): return without appending
GenSkip ==
    /\ tts_pc = "gen"
    /\ tts_stack # <<>>
    /\ counter' = counter + 1
    /\ tts_disk' = RemoveFile(tts_disk, counter + 1)
    /\ tts_stack' = Tail(tts_stack)
    /\ tts_calls' = tts_calls + 1
    /\ UNCHANGED <<tts_pc, tts_text, chunk_chars, tts_queue, part_files, tts_failures,
                   run_errors>>

\* generate_with_size_limit(one_text): _save_one raises after every voice and gTTS
\* failed; nothing catches it, so tts_text_to_mp3_chunked raises
GenRaise ==
    /\ tts_pc = "gen"
    /\ tts_stack # <<>>
    /\ counter' = counter + 1
    /\ tts_calls' = tts_calls + 1
    /\ tts_failures' = tts_failures + 1
    /\ tts_pc' = "raised"
    /\ UNCHANGED <<tts_text, chunk_chars, tts_queue, tts_stack, part_files, tts_disk,
                   run_errors>>

\* return part_files
TtsReturn ==
    /\ tts_pc = "gen"
    /\ tts_stack = <<>>
    /\ tts_queue = <<>>
    /\ tts_pc' = "done"
    /\ UNCHANGED <<tts_text, chunk_chars, tts_queue, tts_stack, counter, part_files,
                   tts_disk, tts_calls, tts_failures, run_errors>>

----------------------------------------------------------------------------
(* src/outputs/audio.py: concat_mp3_with_transitions *)

\* the path of transition_sfx.mp3 in the sequence
SFX == "transition_sfx.mp3"

\* a list of groups that keeps the empty ones
NonEmptyUnfiltered(gs) == gs

\* non_empty = [g for g in groups if g]
NonEmpty(gs) == SelectSeq(gs, LAMBDA g : g # <<>>)

\* a loop test that also appends the cue after the last group
CueAfterEvery(i, n) == i < n

\* if i < len(non_empty) - 1, for the 0-based index i of enumerate
CueAfter(i, n) == i < n - 1

\* the loop that builds seq from the groups from the 0-based index i on
RECURSIVE TransitionSeq(_, _)
TransitionSeq(non_empty, i) ==
    IF i >= Len(non_empty) THEN <<>>
    ELSE non_empty[i + 1]
         \o (IF CueAfter(i, Len(non_empty)) THEN <<SFX>> ELSE <<>>)
         \o TransitionSeq(non_empty, i + 1)

\* nothing written yet by concat_mp3_with_transitions
NoOutput == [sfx |-> FALSE, list |-> FALSE, out |-> FALSE, parts |-> FALSE]

\* the units of group g, named by their group and position
UnitsOf(g, n) == [k \in 1..n |-> <<g, k>>]

\* the command line of _concat_sequence
ConcatCommand ==
    <<"ffmpeg", "-y", "-f", "concat", "-safe", "0", "-i", "ffmpeg_concat_list.txt",
      "-codec:a", "libmp3lame", "-q:a", "4", "out_mp3">>

ConcatStart ==
    /\ cc_pc = "call"
    /\ \E n \in 0..MaxGroups : \E sizes \in [1..n -> 0..MaxUnits] :
          groups = [g \in 1..n |-> UnitsOf(g, sizes[g])]
    /\ cc_seq = <<>>
    /\ cc_files = NoOutput
    /\ cc_cmd = <<>>

ConcatIdle ==
    /\ cc_pc = "idle"
    /\ groups = <<>>
    /\ cc_seq = <<>>
    /\ cc_files = NoOutput
    /\ cc_cmd = <<>>

\* raise RuntimeError("No MP3 groups to merge")
ConcatRaiseEmpty ==
    /\ cc_pc = "call"
    /\ NonEmpty(groups) = <<>>
    /\ cc_pc' = "raised"
    /\ UNCHANGED <<groups, cc_seq, cc_files, cc_cmd>>

\* _build_transition_sfx: ffmpeg exits non-zero, subprocess.run(check=True) raises
ConcatSfxFails ==
    /\ cc_pc = "call"
    /\ NonEmpty(groups) # <<>>
    /\ cc_pc' = "raised"
    /\ UNCHANGED <<groups, cc_seq, cc_files, cc_cmd>>

\* the cue is built, seq is built and written to the concat list, and the ffmpeg
\* call of _concat_sequence exits non-zero: subprocess.run(check=True) raises
ConcatSequenceFails ==
    /\ cc_pc = "call"
    /\ NonEmpty(groups) # <<>>
    /\ cc_seq' = TransitionSeq(NonEmpty(groups), 0)
    /\ cc_files' = [cc_files EXCEPT !.sfx = TRUE, !.list = TRUE]
    /\ cc_pc' = "raised"
    /\ cc_cmd' = ConcatCommand
    /\ UNCHANGED groups

\* out_mp3 is written and larger than THRESHOLD_BYTES, and an ffprobe or ffmpeg
\* call of _split_mp3_into_size_limited_parts exits non-zero and raises
ConcatSplitFails ==
    /\ cc_pc = "call"
    /\ NonEmpty(groups) # <<>>
    /\ cc_seq' = TransitionSeq(NonEmpty(groups), 0)
    /\ cc_files' = [sfx |-> TRUE, list |-> TRUE, out |-> TRUE, parts |-> FALSE]
    /\ cc_pc' = "raised"
    /\ cc_cmd' = ConcatCommand
    /\ UNCHANGED groups

\* the cue is built, seq is concatenated into out_mp3, and out_mp3 is split into
\* parts when it is larger than THRESHOLD_BYTES
ConcatAssemble ==
    /\ cc_pc = "call"
    /\ NonEmpty(groups) # <<>>
    /\ cc_seq' = TransitionSeq(NonEmpty(groups), 0)
    /\ \E large \in BOOLEAN :
          cc_files' = [sfx |-> TRUE, list |-> TRUE, out |-> TRUE, parts |-> large]
    /\ cc_pc' = "done"
    /\ cc_cmd' = ConcatCommand
    /\ UNCHANGED groups

----------------------------------------------------------------------------
(* src/outputs/audio.py: _split_mp3_into_size_limited_parts                 *)
(* Sizes are in bytes, times in milliseconds.                               *)

THRESHOLD_BYTES == 10485760
TARGET_BYTES == 10380902
\* a loop that allows ten shortened cuts
TenTries == 5 + 5

\* while ... and tries < 8
MAX_TRIES == 8

RECURSIVE Gcd(_, _)
Gcd(a, b) == IF b = 0 THEN a ELSE Gcd(b, a % b)

\* max(1.0, duration * (target_bytes / size) * safety) with safety = 0.97, to
\* the millisecond below; the quotient of the sizes is reduced first
InitialSegDur(duration, target_bytes, size) ==
    LET g == Gcd(target_bytes, size)
    IN  Max2(1000, (duration * (target_bytes \div g) * 97) \div ((size \div g) * 100))

\* a retry that shortens the cut by a tenth
ShrinkByTenth(d) == (d * 90) \div 100

\* cur_dur *= 0.92
Shrink(d) == (d * 92) \div 100

\* while t < duration - 0.01
MoreToCut(t, duration) == t < duration - 10

\* sizes of the stream: at the target, and twice the target
SplitSizes == {TARGET_BYTES, 2 * TARGET_BYTES}
\* durations ffprobe reports for the stream
SplitDurations == {0, 1500, 2500}

\* the whole stream returned as the only part
WholeStream == [start |-> 0, dur |-> sp_duration, over |-> sp_size > TARGET_BYTES]

\* one run of ffmpeg -ss t -i mp3_path -t dur -c copy out_part for the part
\* numbered part_idx, and whether the file it wrote is over target_bytes
CutCommand(t, dur, part_idx, over) == [ss |-> t, t |-> dur, part |-> part_idx, over |-> over]

SplitStart ==
    /\ sp_pc = "call"
    /\ sp_size \in SplitSizes
    /\ sp_duration \in SplitDurations
    /\ seg_dur = 0
    /\ sp_t = 0
    /\ cur_dur = 0
    /\ tries = 0
    /\ sp_over = FALSE
    /\ out_files = <<>>
    /\ cuts = <<>>

SplitIdle ==
    /\ sp_pc = "idle"
    /\ sp_size = 0
    /\ sp_duration = 0
    /\ seg_dur = 0
    /\ sp_t = 0
    /\ cur_dur = 0
    /\ tries = 0
    /\ sp_over = FALSE
    /\ out_files = <<>>
    /\ cuts = <<>>

\* if size <= target_bytes: return [mp3_path]; if duration <= 0: return [mp3_path]
SplitReturnWhole ==
    /\ sp_pc = "call"
    /\ (sp_size <= TARGET_BYTES \/ sp_duration <= 0)
    /\ out_files' = <<WholeStream>>
    /\ sp_pc' = "done"
    /\ UNCHANGED <<sp_size, sp_duration, seg_dur, sp_t, cur_dur, tries, sp_over, cuts>>

\* seg_dur is estimated; out_files = [], t = 0.0
SplitBegin ==
    /\ sp_pc = "call"
    /\ sp_size > TARGET_BYTES
    /\ sp_duration > 0
    /\ seg_dur' = InitialSegDur(sp_duration, TARGET_BYTES, sp_size)
    /\ sp_pc' = "loop"
    /\ UNCHANGED <<sp_size, sp_duration, sp_t, cur_dur, tries, sp_over, out_files, cuts>>

\* the first cut of a part, of seg_dur from t; the tool decides the part's size
SplitFirstCut ==
    /\ sp_pc = "loop"
    /\ MoreToCut(sp_t, sp_duration)
    /\ \E over \in BOOLEAN :
          /\ sp_over' = over
          /\ cuts' = Append(cuts, CutCommand(sp_t, seg_dur, Len(out_files) + 1, over))
    /\ tries' = 0
    /\ cur_dur' = seg_dur
    /\ sp_pc' = "retry"
    /\ UNCHANGED <<sp_size, sp_duration, seg_dur, sp_t, out_files>>

\* the part is over target_bytes and tries < 8: unlink, shrink, cut again from t
SplitRetryCut ==
    /\ sp_pc = "retry"
    /\ sp_over
    /\ tries < MAX_TRIES
    /\ cur_dur' = Shrink(cur_dur)
    /\ \E over \in BOOLEAN :
          /\ sp_over' = over
          /\ cuts' = Append(cuts, CutCommand(sp_t, Shrink(cur_dur), Len(out_files) + 1, over))
    /\ tries' = tries + 1
    /\ UNCHANGED <<sp_pc, sp_size, sp_duration, seg_dur, sp_t, out_files>>

\* an accept step that moves t by the estimate, not by the accepted cut
SplitAcceptAdvancesSegDur ==
    /\ sp_pc = "retry"
    /\ ~(sp_over /\ tries < MAX_TRIES)
    /\ out_files' = Append(out_files, [start |-> sp_t, dur |-> cur_dur, over |-> sp_over])
    /\ sp_t' = sp_t + seg_dur
    /\ sp_pc' = "loop"
    /\ UNCHANGED <<sp_size, sp_duration, seg_dur, cur_dur, tries, sp_over, cuts>>

\* an accept step that leaves the start offset where it was
SplitAcceptKeepsStart ==
    /\ sp_pc = "retry"
    /\ ~(sp_over /\ tries < MAX_TRIES)
    /\ out_files' = Append(out_files, [start |-> sp_t, dur |-> cur_dur, over |-> sp_over])
    /\ sp_t' = sp_t
    /\ sp_pc' = "loop"
    /\ UNCHANGED <<sp_size, sp_duration, seg_dur, cur_dur, tries, sp_over, cuts>>

\* out_files.append(out_part); t += cur_dur; part_idx += 1
SplitAccept ==
    /\ sp_pc = "retry"
    /\ ~(sp_over /\ tries < MAX_TRIES)
    /\ out_files' = Append(out_files, [start |-> sp_t, dur |-> cur_dur, over |-> sp_over])
    /\ sp_t' = sp_t + cur_dur
    /\ sp_pc' = "loop"
    /\ UNCHANGED <<sp_size, sp_duration, seg_dur, cur_dur, tries, sp_over, cuts>>

\* an ffmpeg cut exits non-zero: subprocess.run(check=True) raises
SplitCutFails ==
    /\ \/ sp_pc = "loop" /\ MoreToCut(sp_t, sp_duration)
       \/ sp_pc = "retry" /\ sp_over /\ tries < MAX_TRIES
    /\ sp_pc' = "raised"
    /\ UNCHANGED <<sp_size, sp_duration, seg_dur, sp_t, cur_dur, tries, sp_over, out_files,
                   cuts>>

\* return out_files
SplitReturn ==
    /\ sp_pc = "loop"
    /\ ~MoreToCut(sp_t, sp_duration)
    /\ sp_pc' = "done"
    /\ UNCHANGED <<sp_size, sp_duration, seg_dur, sp_t, cur_dur, tries, sp_over, out_files,
                   cuts>>

----------------------------------------------------------------------------
(* run_daily.py: main, step 6 (segment grouping, timestamps, assembly) *)
(* Durations are in milliseconds, timestamps in hundredths of a second.    *)

\* the playback tempo, in hundredths (1.25)
PLAYBACK_ATEMPO == 125
\* _SFX_RAW = 2.3 seconds, in milliseconds
SFX_RAW == 2300
\* the timestamp -1 of an item whose segment produced no audio, in hundredths
UNAVAILABLE == -100

\* round(n / d, 2) for a quotient in hundredths: nearest, ties to even
RoundDiv(n, d) ==
    LET q == n \div d
        r == n % d
    IN  IF 2 * r < d THEN q
        ELSE IF 2 * r > d THEN q + 1
        ELSE IF q % 2 = 0 THEN q ELSE q + 1

\* round(_t / PLAYBACK_ATEMPO, 2) for _t in milliseconds
GroupStart(t) == RoundDiv(10 * t, PLAYBACK_ATEMPO)

\* a walk that forgets the cue between groups
RECURSIVE RawStartsNoCue(_, _, _)
RawStartsNoCue(durs, gi, t) ==
    IF gi >= Len(durs) THEN <<>>
    ELSE <<t>> \o RawStartsNoCue(durs, gi + 1, t + durs[gi + 1])

\* the loop over _raw_durs from the 0-based index gi on with the counter at t:
\* the values of _t at which each group starts
RECURSIVE RawStarts(_, _, _)
RawStarts(durs, gi, t) ==
    IF gi >= Len(durs) THEN <<>>
    ELSE <<t>> \o RawStarts(durs, gi + 1,
                            t + durs[gi + 1]
                              + (IF gi < Len(durs) - 1 THEN SFX_RAW ELSE 0))

\* the letters of [A-Za-z]
AsciiUpper == <<"A", "B", "C", "D", "E", "F", "G", "H", "I", "J", "K", "L", "M", "N", "O", "P", "Q", "R", "S", "T", "U", "V", "W", "X", "Y", "Z">>
AsciiLower == <<"a", "b", "c", "d", "e", "f", "g", "h", "i", "j", "k", "l", "m", "n", "o", "p", "q", "r", "s", "t", "u", "v", "w", "x", "y", "z">>
Letters == {AsciiUpper[i] : i \in 1..26} \cup {AsciiLower[i] : i \in 1..26}
IsLetter(c) == c \in Letters
\* the lower-case letter of each upper-case letter
ToLower ==
    [c \in {AsciiUpper[i] : i \in 1..26} |->
        AsciiLower[CHOOSE i \in 1..26 : AsciiUpper[i] = c]]
\* LATIN CAPITAL LETTER I WITH DOT ABOVE, and COMBINING DOT ABOVE
I_DOT == "U+0130"
DOT_ABOVE == "U+0307"
\* str.lower() of one character; U+0130 lowers to the two characters "i", U+0307
LowerChar(c) ==
    IF c = I_DOT THEN <<"i", DOT_ABOVE>>
    ELSE IF c \in DOMAIN ToLower THEN <<ToLower[c]>>
    ELSE <<c>>

\* str.lower()
RECURSIVE Lower(_)
Lower(s) == IF s = <<>> THEN <<>> ELSE LowerChar(Head(s)) \o Lower(Tail(s))

\* re.findall(r'[A-Za-z]{5,}', title): the maximal runs of at least 5 letters
RECURSIVE FindWords(_)
FindWords(title) ==
    LET n == Len(title)
        isLetter(i) == IsLetter(title[i])
        starts == {i \in 1..n : isLetter(i)}
    IN  IF starts = {} THEN <<>>
        ELSE LET a == SetMin(starts)
                 stops == {i \in a..n : ~isLetter(i)}
                 b == IF stops = {} THEN n ELSE SetMin(stops) - 1
             IN  (IF b - a + 1 >= 5 THEN <<SubSeq(title, a, b)>> ELSE <<>>)
                 \o FindWords(SubSeq(title, b + 1, n))

STOP == { <<"t","h","e">>, <<"a">>, <<"a","n">>, <<"a","n","d">>, <<"o","r">>,
          <<"o","f">>, <<"i","n">>, <<"f","o","r">>, <<"t","o">>, <<"i","s">>,
          <<"a","r","e">>, <<"w","i","t","h">>, <<"f","r","o","m">> }

\* str.find(w): the 0-based index of the first occurrence, or -1
Find(tl, w) ==
    LET at == {i \in 0..(Len(tl) - Len(w)) : SubSeq(tl, i + 1, i + Len(w)) = w}
    IN  IF at = {} THEN -1 ELSE SetMin(at)

NoFrac == [some |-> FALSE, num |-> 0, den |-> 1]

\* _title_text_frac(title, text): None, or min(hits) / max(len(text), 1)
_title_text_frac(title, text) ==
    LET found == SelectSeq(FindWords(title), LAMBDA w : Lower(w) \notin STOP)
        words == [k \in 1..Len(found) |-> Lower(found[k])]
        first4 == SubSeq(words, 1, Min2(4, Len(words)))
        tl == Lower(text)
        hits == {p \in {Find(tl, first4[k]) : k \in 1..Len(first4)} : p >= 0}
    IN  IF words = <<>> \/ text = <<>> THEN NoFrac
        ELSE IF hits = {} THEN NoFrac
        ELSE [some |-> TRUE, num |-> SetMin(hits), den |-> Max2(Len(text), 1)]

\* an entry loop without the sentinel: an unresolved segment gets offset 0
ItemTimestampNoSentinel(title, raw_si) ==
    IF raw_si \in DOMAIN raw_seg_to_group
    THEN group_ts[raw_seg_to_group[raw_si] + 1]
    ELSE 0

\* the timestamp of one entry (lines 477-489), in hundredths
ItemTimestamp(title, raw_si) ==
    IF raw_si \notin DOMAIN raw_seg_to_group THEN UNAVAILABLE
    ELSE LET gi == raw_seg_to_group[raw_si]
             base_ts == group_ts[gi + 1]
             seg_text == IF raw_si < Len(raw_segments_all)
                         THEN raw_segments_all[raw_si + 1] ELSE <<>>
             \* _seg_dur = _raw_durs[_gi] / PLAYBACK_ATEMPO, kept as the raw
             \* milliseconds: _seg_dur in hundredths is 10 * ms / PLAYBACK_ATEMPO
             seg_ms == IF gi < Len(raw_durs) THEN raw_durs[gi + 1] ELSE 0
             frac == _title_text_frac(title, seg_text)
         IN  IF frac.some /\ seg_ms > 0
             THEN RoundDiv(base_ts * frac.den * PLAYBACK_ATEMPO + 10 * frac.num * seg_ms,
                           frac.den * PLAYBACK_ATEMPO)
             ELSE base_ts

\* segments of the script after strip(): an empty one, and "on yeast I...I prion"
\* with DottedRun letters U+0130 for the I's
DottedRun == 20
SegYeastDottedPrion ==
    <<"o","n"," ","y","e","a","s","t"," ">> \o Rep(I_DOT, DottedRun)
        \o <<" ","p","r","i","o","n">>
SegTexts == {<<>>, SegYeastDottedPrion}

\* item titles: two keywords, one keyword after a stop word, no word of 5 letters,
\* and five keywords of which the segment names the fifth only
TitleYeastPrion == <<"Y","e","a","s","t"," ","P","r","i","o","n">>
TitleThePrion == <<"T","h","e"," ","P","r","i","o","n">>
TitleTheRna == <<"T","h","e"," ","R","N","A">>
TitleFiveWords ==
    <<"A","l","p","h","a"," ","B","e","t","a","s"," ","G","a","m","m","a"," ",
      "D","e","l","t","a"," ","P","r","i","o","n">>
Titles == {TitleYeastPrion, TitleThePrion, TitleTheRna, TitleFiveWords}

\* how many paths tts_text_to_mp3_chunked returns for one segment
PartCounts == {0, 1, 2}
\* raw durations ffprobe reports for a unit, in milliseconds
Durations == {10010, 15000}

\* episode_items.json as written at lines 413-416: no group starts yet; the entries
\* it lists all carry timestamp -1 and are read again when the item loop reaches them
BaseItemsFile == [timestamps |-> <<>>, reconstructed |-> FALSE, items |-> <<>>]

RunStart ==
    /\ run_pc = "segments"
    /\ raw_segments_all \in UNION {[1..n -> SegTexts] : n \in 1..MaxSegs}
    /\ seg_i = 0
    /\ raw_seg_to_group = [x \in {} |-> 0]
    /\ unit_dur = [x \in {} |-> 0]
    /\ raw_durs = <<>>
    /\ group_ts = <<>>
    /\ entries = <<>>
    /\ items_file = BaseItemsFile
    /\ cc_pc = "idle"
    /\ groups = <<>>
    /\ cc_seq = <<>>
    /\ cc_files = NoOutput
    /\ cc_cmd = <<>>

RunIdle ==
    /\ run_pc = "idle"
    /\ raw_segments_all = <<>>
    /\ seg_i = 0
    /\ raw_seg_to_group = [x \in {} |-> 0]
    /\ unit_dur = [x \in {} |-> 0]
    /\ raw_durs = <<>>
    /\ group_ts = <<>>
    /\ entries = <<>>
    /\ items_file = BaseItemsFile

\* a segment loop over the filtered segments: the mapping is keyed by the
\* position among the segments that produced audio, not by the raw index
SegmentStepFiltered ==
    /\ run_pc = "segments"
    /\ seg_i < Len(raw_segments_all)
    /\ seg_i' = seg_i + 1
    /\ IF raw_segments_all[seg_i + 1] = <<>>
       THEN UNCHANGED <<groups, raw_seg_to_group>>
       ELSE \E n \in PartCounts :
              IF n > 0
              THEN /\ raw_seg_to_group' =
                        [x \in (DOMAIN raw_seg_to_group) \cup {Len(groups)} |->
                            IF x = Len(groups) THEN Len(groups) ELSE raw_seg_to_group[x]]
                   /\ groups' = Append(groups, UnitsOf(seg_i, n))
              ELSE UNCHANGED <<groups, raw_seg_to_group>>
    /\ UNCHANGED <<run_pc, raw_segments_all, unit_dur, raw_durs, group_ts, entries,
                   items_file, cc_pc, cc_seq, cc_files, cc_cmd, run_errors>>

\* a segment loop that makes a group of every list of paths, empty or not
SegmentStepKeepsEmpty ==
    /\ run_pc = "segments"
    /\ seg_i < Len(raw_segments_all)
    /\ seg_i' = seg_i + 1
    /\ IF raw_segments_all[seg_i + 1] = <<>>
       THEN UNCHANGED <<groups, raw_seg_to_group>>
       ELSE \E n \in PartCounts :
              /\ raw_seg_to_group' =
                    [x \in (DOMAIN raw_seg_to_group) \cup {seg_i} |->
                        IF x = seg_i THEN Len(groups) ELSE raw_seg_to_group[x]]
              /\ groups' = Append(groups, UnitsOf(seg_i, n))
    /\ UNCHANGED <<run_pc, raw_segments_all, unit_dur, raw_durs, group_ts, entries,
                   items_file, cc_pc, cc_seq, cc_files, cc_cmd, run_errors>>

\* one pass of the loop over raw_segments_all: an empty segment is skipped;
\* otherwise tts_text_to_mp3_chunked returns its paths, and a non-empty list
\* becomes the next group
SegmentStep ==
    /\ run_pc = "segments"
    /\ seg_i < Len(raw_segments_all)
    /\ seg_i' = seg_i + 1
    /\ IF raw_segments_all[seg_i + 1] = <<>>
       THEN UNCHANGED <<groups, raw_seg_to_group>>
       ELSE \E n \in PartCounts :
              IF n > 0
              THEN /\ raw_seg_to_group' =
                        [x \in (DOMAIN raw_seg_to_group) \cup {seg_i} |->
                            IF x = seg_i THEN Len(groups) ELSE raw_seg_to_group[x]]
                   /\ groups' = Append(groups, UnitsOf(seg_i, n))
              ELSE UNCHANGED <<groups, raw_seg_to_group>>
    /\ UNCHANGED <<run_pc, raw_segments_all, unit_dur, raw_durs, group_ts, entries,
                   items_file, cc_pc, cc_seq, cc_files, cc_cmd, run_errors>>

\* tts_text_to_mp3_chunked raises for a segment (see GenRaise): main has no handler
SegmentTtsRaises ==
    /\ run_pc = "segments"
    /\ seg_i < Len(raw_segments_all)
    /\ raw_segments_all[seg_i + 1] # <<>>
    /\ run_pc' = "aborted"
    /\ UNCHANGED <<raw_segments_all, seg_i, raw_seg_to_group, unit_dur, raw_durs,
                   group_ts, entries, items_file, varsConcat, run_errors>>

\* the sum of ffprobe's durations over the units of one group
RECURSIVE SumDur(_, _)
SumDur(grp, dur) ==
    IF grp = <<>> THEN 0 ELSE dur[Head(grp)] + SumDur(Tail(grp), dur)

\* the units of every group
UnitSet(gs) == UNION {{gs[g][k] : k \in 1..Len(gs[g])} : g \in 1..Len(gs)}

\* lines 449-460: probe every unit, sum per group, walk the groups
ComputeGroupStarts ==
    /\ run_pc = "segments"
    /\ seg_i = Len(raw_segments_all)
    /\ \E dur \in [UnitSet(groups) -> Durations] :
          LET durs == [g \in 1..Len(groups) |-> SumDur(groups[g], dur)]
              starts == RawStarts(durs, 0, 0)
          IN  /\ unit_dur' = dur
              /\ raw_durs' = durs
              /\ group_ts' = [k \in 1..Len(durs) |-> GroupStart(starts[k])]
    /\ run_pc' = "items"
    /\ UNCHANGED <<raw_segments_all, seg_i, raw_seg_to_group, entries, items_file,
                   varsConcat, run_errors>>

\* the entries of _episode_items_list: each timestamp depends on its own entry
\* only, so a pair of entries shows every relation between two items
ItemSlots == 1..2
\* values of _item_segments, and -1 for an item without one
SegmentIndices == -1..MaxSegs

\* one pass of the loop over _episode_items_list (lines 476-489); the entry's
\* title and segment are read when the loop reaches it
ItemStep ==
    /\ run_pc = "items"
    /\ Len(entries) + 1 \in ItemSlots
    /\ \E title \in Titles, seg \in SegmentIndices :
          entries' = Append(entries, [title |-> title, segment |-> seg,
                                      timestamp |-> ItemTimestamp(title, seg)])
    /\ UNCHANGED <<run_pc, raw_segments_all, seg_i, raw_seg_to_group, unit_dur,
                   raw_durs, group_ts, items_file, varsConcat, run_errors>>

\* lines 491-497: episode_items.json is rewritten with the timestamps, then
\* concat_mp3_with_transitions(groups, final_mp3) is called
WriteItemsFile ==
    /\ run_pc = "items"
    /\ Len(entries) + 1 \notin ItemSlots
    /\ items_file' = [timestamps |-> group_ts, reconstructed |-> TRUE, items |-> entries]
    /\ run_pc' = "concat"
    /\ cc_pc' = "call"
    /\ UNCHANGED <<raw_segments_all, seg_i, raw_seg_to_group, unit_dur, raw_durs,
                   group_ts, entries, groups, cc_seq, cc_files, cc_cmd,
                   run_errors>>

----------------------------------------------------------------------------
(* run_daily.py: main, steps 1 to 3 (collect, filter, fetch and analyze,    *)
(* rank, mark as seen) and src/utils/dedup.py: SeenStore                    *)

\* collected items a run works on, and workers of the fetch pool
MaxItems == 2
MaxWorkers == 2

\* hashlib.sha1(url.strip().encode("utf-8")).hexdigest(): one id per stripped url
_url_id(url) == <<"sha1", Strip(url)>>

UrlA == <<"a">>
UrlB == <<"b">>
UrlW == <<"w">>

\* what the collectors can return: two papers, a second feed's copy of the
\* first with a trailing blank in its url, a paper with an excluded term in
\* its title, a wiki context item, and an item without url
ItemPool ==
    { [url |-> UrlA, title |-> "A", kind |-> "paper", state |-> "collected"],
      [url |-> UrlA \o <<" ">>, title |-> "A again", kind |-> "paper", state |-> "collected"],
      [url |-> UrlB, title |-> "B", kind |-> "paper", state |-> "collected"],
      [url |-> <<"c">>, title |-> "mouse", kind |-> "paper", state |-> "collected"],
      [url |-> UrlW, title |-> "W", kind |-> "wiki_context", state |-> "collected"],
      [url |-> <<>>, title |-> "no url", kind |-> "paper", state |-> "collected"] }

ItemLists == UNION {[1..k -> ItemPool] : k \in 0..MaxItems}

\* any(t in hay for t in excluded_terms), hay the lowered title, source and url
HasExcludedTerm(it) == it.title \in {"mouse"}

\* seen_ids.json: missing, unreadable, or a list of ids
SeenFiles ==
    { [exists |-> FALSE, valid |-> FALSE, ids |-> {}],
      [exists |-> TRUE, valid |-> FALSE, ids |-> {}] }
    \cup { [exists |-> TRUE, valid |-> TRUE, ids |-> S] :
              S \in SUBSET {_url_id(UrlA), _url_id(UrlW)} }

\* items.jsonl: missing, or the new_items an earlier run wrote
SeedFiles ==
    { [exists |-> FALSE, lines |-> <<>>] }
    \cup { [exists |-> TRUE, lines |-> l] :
              l \in { <<>>,
                      <<[url |-> UrlA, title |-> "A", kind |-> "paper", state |-> "analyzed"]>>,
                      <<[url |-> UrlA, title |-> "A", kind |-> "paper", state |-> "analyzed"],
                        [url |-> UrlB, title |-> "B", kind |-> "paper", state |-> "collected"]>> } }

\* SeenStore.__init__: the ids of the file, or the empty set when the file is
\* missing or cannot be read
SeenStoreInit(file) == IF file.exists /\ file.valid THEN file.ids ELSE {}

\* SeenStore.has
SeenHas(ids, url) == _url_id(url) \in ids

\* SeenStore.add
SeenAdd(ids, url) == ids \cup {_url_id(url)}

\* the first pass over the collected items: candidates need fetch and analysis,
\* wiki context items go to new_items directly
RECURSIVE FirstPass(_, _, _, _, _, _)
FirstPass(its, ids, debug, run_seen_urls, cands, news) ==
    IF its = <<>> THEN [candidates |-> cands, new_items |-> news]
    ELSE LET it == Head(its)
             url == Strip(it.url)
             rest == Tail(its)
             seen_urls == run_seen_urls \cup {url}
         IN  IF url = <<>> THEN FirstPass(rest, ids, debug, run_seen_urls, cands, news)
             ELSE IF HasExcludedTerm(it)
                  THEN FirstPass(rest, ids, debug, run_seen_urls, cands, news)
             ELSE IF url \in run_seen_urls
                  THEN FirstPass(rest, ids, debug, run_seen_urls, cands, news)
             ELSE IF it.kind = "wiki_context"
                  THEN FirstPass(rest, ids, debug, seen_urls, cands, Append(news, it))
             ELSE IF ~debug /\ SeenHas(ids, url)
                  THEN FirstPass(rest, ids, debug, seen_urls, cands, news)
             ELSE FirstPass(rest, ids, debug, seen_urls, Append(cands, it), news)

\* a marking step that adds every new item, ranked or not
MarkEveryItem(ids, its) ==
    ids \cup {_url_id(new_items[i].url) : i \in 1..Len(new_items)}

\* for _it in ranked: if _url: seen.add(_url)
RECURSIVE MarkRanked(_, _)
MarkRanked(ids, its) ==
    IF its = <<>> THEN ids
    ELSE LET _url == Strip(Head(its).url)
         IN  MarkRanked(IF _url # <<>> THEN SeenAdd(ids, _url) ELSE ids, Tail(its))

\* the items of its at the positions in S, in the order of its
RECURSIVE Pick(_, _, _)
Pick(its, S, i) ==
    IF i > Len(its) THEN <<>>
    ELSE (IF i \in S THEN <<its[i]>> ELSE <<>>) \o Pick(its, S, i + 1)

\* rank_and_limit returns some of the items it is given, each at most once
Rankings(its) == {Pick(its, S, 1) : S \in SUBSET (1..Len(its))}

\* f"fetch/analyze failed for '{title[:60]}': {e}"
FetchError(it) == [msg |-> "fetch/analyze failed for", title |-> it.title]

\* futures = {pool.submit(_fetch_and_analyze, it): it for it in candidates}
Submit(cands) ==
    [i \in 1..Len(cands) |-> [it |-> cands[i], st |-> "queued", yielded |-> FALSE]]

Running == {i \in 1..Len(futures) : futures[i].st = "running"}

CollectStart ==
    /\ co_pc = "collect"
    /\ REGEN_FROM_CACHE \in BOOLEAN
    /\ DEBUG_MODE \in BOOLEAN
    /\ max_workers \in 1..MaxWorkers
    /\ seed_file \in SeedFiles
    /\ seen_file \in SeenFiles
    /\ seen_before = SeenStoreInit(seen_file)
    /\ seen_ids = SeenStoreInit(seen_file)
    /\ seen_saves = 0
    /\ items = <<>>
    /\ candidates = <<>>
    /\ new_items = <<>>
    /\ futures = <<>>
    /\ ranked = <<>>

CollectIdle ==
    /\ co_pc = "idle"
    /\ REGEN_FROM_CACHE = FALSE
    /\ DEBUG_MODE = FALSE
    /\ max_workers = 0
    /\ seed_file = [exists |-> FALSE, lines |-> <<>>]
    /\ seen_file = [exists |-> FALSE, valid |-> FALSE, ids |-> {}]
    /\ seen_before = {}
    /\ seen_ids = {}
    /\ seen_saves = 0
    /\ items = <<>>
    /\ candidates = <<>>
    /\ new_items = <<>>
    /\ futures = <<>>
    /\ ranked = <<>>

\* if REGEN_FROM_CACHE and seed_file.exists(): new_items is read from the file
LoadSeed ==
    /\ co_pc = "collect"
    /\ REGEN_FROM_CACHE /\ seed_file.exists
    /\ new_items' = seed_file.lines
    /\ co_pc' = "rank"
    /\ UNCHANGED <<REGEN_FROM_CACHE, DEBUG_MODE, max_workers, seed_file, seen_file,
                   seen_before, seen_ids, seen_saves, items, candidates, futures, ranked,
                   run_errors>>

\* else: the collectors return the items of the day
CollectItems ==
    /\ co_pc = "collect"
    /\ ~(REGEN_FROM_CACHE /\ seed_file.exists)
    /\ items' \in ItemLists
    /\ co_pc' = "filter"
    /\ UNCHANGED <<REGEN_FROM_CACHE, DEBUG_MODE, max_workers, seed_file, seen_file,
                   seen_before, seen_ids, seen_saves, candidates, new_items, futures, ranked,
                   run_errors>>

\* a collector raises and main ends before anything is ranked
CollectRaises ==
    /\ co_pc = "collect"
    /\ ~(REGEN_FROM_CACHE /\ seed_file.exists)
    /\ co_pc' = "raised"
    /\ UNCHANGED <<REGEN_FROM_CACHE, DEBUG_MODE, max_workers, seed_file, seen_file,
                   seen_before, seen_ids, seen_saves, items, candidates, new_items, futures,
                   ranked, run_errors>>

\* the first pass, then every candidate is submitted to the pool
FilterAndSubmit ==
    /\ co_pc = "filter"
    /\ LET r == FirstPass(items, seen_ids, DEBUG_MODE, {}, <<>>, <<>>)
       IN  /\ candidates' = r.candidates
           /\ new_items' = r.new_items
           /\ futures' = Submit(r.candidates)
    /\ co_pc' = "fetch"
    /\ UNCHANGED <<REGEN_FROM_CACHE, DEBUG_MODE, max_workers, seed_file, seen_file,
                   seen_before, seen_ids, seen_saves, items, ranked, run_errors>>

\* a free worker of the pool takes a queued call of _fetch_and_analyze
WorkerStart(i) ==
    /\ co_pc = "fetch"
    /\ futures[i].st = "queued"
    /\ Cardinality(Running) < max_workers
    /\ futures' = [futures EXCEPT ![i].st = "running"]
    /\ UNCHANGED <<co_pc, REGEN_FROM_CACHE, DEBUG_MODE, max_workers, seed_file, seen_file,
                   seen_before, seen_ids, seen_saves, items, candidates, new_items, ranked,
                   run_errors>>

\* body = extract_article_text(url); it["extracted_chars"], it["has_fulltext"]
\* are set on the item itself; extract_article_text catches every exception
WorkerExtract(i) ==
    /\ co_pc = "fetch"
    /\ futures[i].st = "running"
    /\ futures[i].it.state = "collected"
    /\ futures' = [futures EXCEPT ![i].it.state = "extracted"]
    /\ UNCHANGED <<co_pc, REGEN_FROM_CACHE, DEBUG_MODE, max_workers, seed_file, seen_file,
                   seen_before, seen_ids, seen_saves, items, candidates, new_items, ranked,
                   run_errors>>

\* it["analysis"] = analyze_article(...); return it
WorkerAnalyzeOk(i) ==
    /\ co_pc = "fetch"
    /\ futures[i].st = "running"
    /\ futures[i].it.state = "extracted"
    /\ futures' = [futures EXCEPT ![i].it.state = "analyzed", ![i].st = "done"]
    /\ UNCHANGED <<co_pc, REGEN_FROM_CACHE, DEBUG_MODE, max_workers, seed_file, seen_file,
                   seen_before, seen_ids, seen_saves, items, candidates, new_items, ranked,
                   run_errors>>

\* analyze_article raises: the future holds the exception
WorkerAnalyzeRaises(i) ==
    /\ co_pc = "fetch"
    /\ futures[i].st = "running"
    /\ futures[i].it.state = "extracted"
    /\ futures' = [futures EXCEPT ![i].st = "raised"]
    /\ UNCHANGED <<co_pc, REGEN_FROM_CACHE, DEBUG_MODE, max_workers, seed_file, seen_file,
                   seen_before, seen_ids, seen_saves, items, candidates, new_items, ranked,
                   run_errors>>

\* as_completed yields a finished future whose result() returns the item
AppendResult(i) ==
    /\ co_pc = "fetch"
    /\ futures[i].st = "done"
    /\ ~futures[i].yielded
    /\ new_items' = Append(new_items, futures[i].it)
    /\ futures' = [futures EXCEPT ![i].yielded = TRUE]
    /\ UNCHANGED <<co_pc, REGEN_FROM_CACHE, DEBUG_MODE, max_workers, seed_file, seen_file,
                   seen_before, seen_ids, seen_saves, items, candidates, ranked, run_errors>>

\* a failure handler that records the error and drops the item
AppendFailedDropsItem(i) ==
    /\ co_pc = "fetch"
    /\ futures[i].st = "raised"
    /\ ~futures[i].yielded
    /\ run_errors' = Append(run_errors, FetchError(futures[i].it))
    /\ futures' = [futures EXCEPT ![i].yielded = TRUE]
    /\ UNCHANGED <<co_pc, REGEN_FROM_CACHE, DEBUG_MODE, max_workers, seed_file, seen_file,
                   seen_before, seen_ids, seen_saves, items, candidates, new_items, ranked>>

\* as_completed yields a finished future whose result() raises: the error is
\* recorded and futures[fut] is appended
AppendFailed(i) ==
    /\ co_pc = "fetch"
    /\ futures[i].st = "raised"
    /\ ~futures[i].yielded
    /\ run_errors' = Append(run_errors, FetchError(futures[i].it))
    /\ new_items' = Append(new_items, futures[i].it)
    /\ futures' = [futures EXCEPT ![i].yielded = TRUE]
    /\ UNCHANGED <<co_pc, REGEN_FROM_CACHE, DEBUG_MODE, max_workers, seed_file, seen_file,
                   seen_before, seen_ids, seen_saves, items, candidates, ranked>>

\* every future was yielded: the pool is closed and write_jsonl(seed_file, new_items)
WriteSeed ==
    /\ co_pc = "fetch"
    /\ \A i \in 1..Len(futures) : futures[i].yielded
    /\ seed_file' = [exists |-> TRUE, lines |-> new_items]
    /\ co_pc' = "rank"
    /\ UNCHANGED <<REGEN_FROM_CACHE, DEBUG_MODE, max_workers, seen_file, seen_before,
                   seen_ids, seen_saves, items, candidates, new_items, futures, ranked,
                   run_errors>>

\* ranked = rank_and_limit(new_items, cfg)
Rank ==
    /\ co_pc = "rank"
    /\ ranked' \in Rankings(new_items)
    /\ co_pc' = "mark"
    /\ UNCHANGED <<REGEN_FROM_CACHE, DEBUG_MODE, max_workers, seed_file, seen_file,
                   seen_before, seen_ids, seen_saves, items, candidates, new_items, futures,
                   run_errors>>

\* if not REGEN_FROM_CACHE: every ranked url is added and the store is saved
MarkSeen ==
    /\ co_pc = "mark"
    /\ IF ~REGEN_FROM_CACHE
       THEN /\ seen_ids' = MarkRanked(seen_ids, ranked)
            /\ seen_file' = [exists |-> TRUE, valid |-> TRUE,
                             ids |-> MarkRanked(seen_ids, ranked)]
            /\ seen_saves' = seen_saves + 1
       ELSE UNCHANGED <<seen_ids, seen_file, seen_saves>>
    /\ co_pc' = "done"
    /\ UNCHANGED <<REGEN_FROM_CACHE, DEBUG_MODE, max_workers, seed_file, seen_before,
                   items, candidates, new_items, futures, ranked, run_errors>>


----------------------------------------------------------------------------
(* Specifications: one per operation, the other operations idle *)

\* _run_errors = [] at the start of main
NoRunErrors == run_errors = <<>>

ChunkNext == CallChunkText /\ UNCHANGED <<varsCollect, varsPick, varsSplit, varsSave, varsTts, varsConcat, run_errors, varsRun>>
ChunkInit == ChunkStart /\ SaveIdle /\ TtsIdle /\ ConcatIdle /\ RunIdle /\ SplitIdle /\ PickIdle /\ CollectIdle /\ NoRunErrors
SpecChunk == ChunkInit /\ [][ChunkNext]_vars

SaveNext ==
    \/ EdgeAttemptOk /\ UNCHANGED <<varsCollect, varsPick, varsSplit, varsChunk, varsTts, varsConcat, run_errors, varsRun>>
    \/ EdgeAttemptFails /\ UNCHANGED <<varsCollect, varsPick, varsSplit, varsChunk, varsTts, varsConcat, run_errors, varsRun>>
    \/ GttsOk /\ UNCHANGED <<varsCollect, varsPick, varsSplit, varsChunk, varsTts, varsConcat, run_errors, varsRun>>
    \/ GttsFails /\ UNCHANGED <<varsCollect, varsPick, varsSplit, varsChunk, varsTts, varsConcat, run_errors, varsRun>>
SaveInit == SaveStart /\ ChunkIdle /\ TtsIdle /\ ConcatIdle /\ RunIdle /\ SplitIdle /\ PickIdle /\ CollectIdle /\ NoRunErrors
SpecSave == SaveInit /\ [][SaveNext]_vars

TtsNext ==
    \/ ForChunk /\ UNCHANGED <<varsCollect, varsPick, varsSplit, varsChunk, varsSave, varsConcat, varsRun>>
    \/ GenKeep /\ UNCHANGED <<varsCollect, varsPick, varsSplit, varsChunk, varsSave, varsConcat, varsRun>>
    \/ GenBisect /\ UNCHANGED <<varsCollect, varsPick, varsSplit, varsChunk, varsSave, varsConcat, varsRun>>
    \/ GenSkip /\ UNCHANGED <<varsCollect, varsPick, varsSplit, varsChunk, varsSave, varsConcat, varsRun>>
    \/ GenRaise /\ UNCHANGED <<varsCollect, varsPick, varsSplit, varsChunk, varsSave, varsConcat, varsRun>>
    \/ TtsReturn /\ UNCHANGED <<varsCollect, varsPick, varsSplit, varsChunk, varsSave, varsConcat, varsRun>>
TtsInit == TtsStart /\ ChunkIdle /\ SaveIdle /\ ConcatIdle /\ RunIdle /\ SplitIdle /\ PickIdle /\ CollectIdle /\ NoRunErrors
SpecTts == TtsInit /\ [][TtsNext]_vars
\* the call runs on one thread without waiting for anything: it keeps taking steps
SpecTtsFair == TtsInit /\ [][TtsNext]_vars /\ WF_vars(TtsNext)

ConcatNext ==
    \/ ConcatRaiseEmpty /\ UNCHANGED <<varsCollect, varsPick, varsSplit, varsChunk, varsSave, varsTts, run_errors, varsRun>>
    \/ ConcatSfxFails /\ UNCHANGED <<varsCollect, varsPick, varsSplit, varsChunk, varsSave, varsTts, run_errors, varsRun>>
    \/ ConcatSequenceFails /\ UNCHANGED <<varsCollect, varsPick, varsSplit, varsChunk, varsSave, varsTts, run_errors, varsRun>>
    \/ ConcatSplitFails /\ UNCHANGED <<varsCollect, varsPick, varsSplit, varsChunk, varsSave, varsTts, run_errors, varsRun>>
    \/ ConcatAssemble /\ UNCHANGED <<varsCollect, varsPick, varsSplit, varsChunk, varsSave, varsTts, run_errors, varsRun>>
ConcatInit == ConcatStart /\ ChunkIdle /\ SaveIdle /\ TtsIdle /\ RunIdle /\ SplitIdle /\ PickIdle /\ CollectIdle /\ NoRunErrors
SpecConcat == ConcatInit /\ [][ConcatNext]_vars

SplitNext ==
    \/ SplitReturnWhole /\ UNCHANGED <<varsCollect, varsPick, varsChunk, varsSave, varsTts, varsConcat, run_errors, varsRun>>
    \/ SplitBegin /\ UNCHANGED <<varsCollect, varsPick, varsChunk, varsSave, varsTts, varsConcat, run_errors, varsRun>>
    \/ SplitFirstCut /\ UNCHANGED <<varsCollect, varsPick, varsChunk, varsSave, varsTts, varsConcat, run_errors, varsRun>>
    \/ SplitRetryCut /\ UNCHANGED <<varsCollect, varsPick, varsChunk, varsSave, varsTts, varsConcat, run_errors, varsRun>>
    \/ SplitAccept /\ UNCHANGED <<varsCollect, varsPick, varsChunk, varsSave, varsTts, varsConcat, run_errors, varsRun>>
    \/ SplitCutFails /\ UNCHANGED <<varsCollect, varsPick, varsChunk, varsSave, varsTts, varsConcat, run_errors, varsRun>>
    \/ SplitReturn /\ UNCHANGED <<varsCollect, varsPick, varsChunk, varsSave, varsTts, varsConcat, run_errors, varsRun>>
SplitInit ==
    SplitStart /\ ChunkIdle /\ SaveIdle /\ TtsIdle /\ ConcatIdle /\ RunIdle /\ PickIdle
        /\ CollectIdle /\ NoRunErrors
SpecSplit == SplitInit /\ [][SplitNext]_vars
\* the function runs on one thread and subprocess.run returns when the tool
\* exits: as long as a step is possible one is taken
SpecSplitFair == SplitInit /\ [][SplitNext]_vars /\ WF_vars(SplitNext)

PickNext ==
    CallPickSplitPoint
        /\ UNCHANGED <<varsCollect, varsChunk, varsSave, varsTts, varsConcat, varsSplit, run_errors, varsRun>>
PickInit ==
    PickStart /\ ChunkIdle /\ SaveIdle /\ TtsIdle /\ ConcatIdle /\ SplitIdle /\ RunIdle
        /\ CollectIdle /\ NoRunErrors
SpecPick == PickInit /\ [][PickNext]_vars

RunNext ==
    \/ SegmentStep /\ UNCHANGED <<varsCollect, varsPick, varsSplit, varsChunk, varsSave, varsTts>>
    \/ SegmentTtsRaises /\ UNCHANGED <<varsCollect, varsPick, varsSplit, varsChunk, varsSave, varsTts>>
    \/ ComputeGroupStarts /\ UNCHANGED <<varsCollect, varsPick, varsSplit, varsChunk, varsSave, varsTts>>
    \/ ItemStep /\ UNCHANGED <<varsCollect, varsPick, varsSplit, varsChunk, varsSave, varsTts>>
    \/ WriteItemsFile /\ UNCHANGED <<varsCollect, varsPick, varsSplit, varsChunk, varsSave, varsTts>>
    \/ ConcatRaiseEmpty /\ UNCHANGED <<varsCollect, varsPick, varsSplit, varsChunk, varsSave, varsTts, run_errors, varsRun>>
    \/ ConcatSfxFails /\ UNCHANGED <<varsCollect, varsPick, varsSplit, varsChunk, varsSave, varsTts, run_errors, varsRun>>
    \/ ConcatSequenceFails /\ UNCHANGED <<varsCollect, varsPick, varsSplit, varsChunk, varsSave, varsTts, run_errors, varsRun>>
    \/ ConcatSplitFails /\ UNCHANGED <<varsCollect, varsPick, varsSplit, varsChunk, varsSave, varsTts, run_errors, varsRun>>
    \/ ConcatAssemble /\ UNCHANGED <<varsCollect, varsPick, varsSplit, varsChunk, varsSave, varsTts, run_errors, varsRun>>
RunInit == RunStart /\ ChunkIdle /\ SaveIdle /\ TtsIdle /\ SplitIdle /\ PickIdle /\ CollectIdle /\ NoRunErrors
SpecRun == RunInit /\ [][RunNext]_vars

CollectNext ==
    \/ LoadSeed /\ UNCHANGED <<varsChunk, varsSave, varsTts, varsPick, varsConcat, varsSplit, varsRun>>
    \/ CollectItems /\ UNCHANGED <<varsChunk, varsSave, varsTts, varsPick, varsConcat, varsSplit, varsRun>>
    \/ CollectRaises /\ UNCHANGED <<varsChunk, varsSave, varsTts, varsPick, varsConcat, varsSplit, varsRun>>
    \/ FilterAndSubmit /\ UNCHANGED <<varsChunk, varsSave, varsTts, varsPick, varsConcat, varsSplit, varsRun>>
    \/ (\E i \in 1..Len(futures) : WorkerStart(i))
            /\ UNCHANGED <<varsChunk, varsSave, varsTts, varsPick, varsConcat, varsSplit, varsRun>>
    \/ (\E i \in 1..Len(futures) : WorkerExtract(i))
            /\ UNCHANGED <<varsChunk, varsSave, varsTts, varsPick, varsConcat, varsSplit, varsRun>>
    \/ (\E i \in 1..Len(futures) : WorkerAnalyzeOk(i))
            /\ UNCHANGED <<varsChunk, varsSave, varsTts, varsPick, varsConcat, varsSplit, varsRun>>
    \/ (\E i \in 1..Len(futures) : WorkerAnalyzeRaises(i))
            /\ UNCHANGED <<varsChunk, varsSave, varsTts, varsPick, varsConcat, varsSplit, varsRun>>
    \/ (\E i \in 1..Len(futures) : AppendResult(i))
            /\ UNCHANGED <<varsChunk, varsSave, varsTts, varsPick, varsConcat, varsSplit, varsRun>>
    \/ (\E i \in 1..Len(futures) : AppendFailed(i))
            /\ UNCHANGED <<varsChunk, varsSave, varsTts, varsPick, varsConcat, varsSplit, varsRun>>
    \/ WriteSeed /\ UNCHANGED <<varsChunk, varsSave, varsTts, varsPick, varsConcat, varsSplit, varsRun>>
    \/ Rank /\ UNCHANGED <<varsChunk, varsSave, varsTts, varsPick, varsConcat, varsSplit, varsRun>>
    \/ MarkSeen /\ UNCHANGED <<varsChunk, varsSave, varsTts, varsPick, varsConcat, varsSplit, varsRun>>
CollectInit ==
    CollectStart /\ ChunkIdle /\ SaveIdle /\ TtsIdle /\ ConcatIdle /\ SplitIdle /\ PickIdle
        /\ RunIdle /\ NoRunErrors
SpecCollect == CollectInit /\ [][CollectNext]_vars

----------------------------------------------------------------------------
(* Claims about chunk_text *)

\* C6: concatenating the chunks returned by chunk_text in order and removing
\* whitespace gives the input with whitespace removed: no non-whitespace
\* character is dropped, duplicated or reordered.
C6_ChunkTextLossless ==
    ct_pc = "done" => NoSpace(Concat(ct_out)) = NoSpace(ct_text)

\* a sentence cut and a hard cut inside a token both happened
C6_Witness ==
    /\ ct_pc = "done"
    /\ ct_text = <<"a", ".", "b", "b", "b">>
    /\ ct_max = 2
    /\ ct_out = <<<<"a", ".">>, <<"b", "b">>, <<"b">>>>

\* a chunk made of one atomic token: no whitespace and no sentence punctuation
IsAtomic(c) == \A i \in 1..Len(c) : c[i] \notin (Whitespace \cup SentenceEnd)

\* C7: no chunk returned by chunk_text is longer than max_chars unless it is
\* a single atomic token longer than max_chars, and no returned chunk is empty.
C7_ChunkBound ==
    ct_pc = "done" =>
        \A i \in 1..Len(ct_out) :
            /\ ct_out[i] # <<>>
            /\ Len(ct_out[i]) <= ct_max \/ IsAtomic(ct_out[i])

\* a text with inner whitespace, longer than max_chars, was hard-cut
C7_Witness ==
    /\ ct_pc = "done"
    /\ ct_text = <<"a", "a", " ", "b", "b">>
    /\ ct_max = 2
    /\ Len(ct_out) = 3

----------------------------------------------------------------------------
(* Claims about _save_one *)

\* position of a candidate in the fixed order: primary, fallbacks, gTTS last
CandIndex(c) ==
    IF c = GTTS THEN Len(CommonVoices) + 2
    ELSE IF c = so_voice THEN 1
    ELSE 1 + CHOOSE k \in 1..Len(CommonVoices) :
                 SelectSeq(CommonVoices, LAMBDA v : v # so_voice)[k] = c

\* the failed attempts on candidate c among the first n attempts
FailedBefore(c, n) == {i \in 1..n : so_log[i].cand = c /\ ~so_log[i].ok}

\* C4: _save_one tries the primary voice, then each fallback voice in list order,
\* then gTTS last; each voice at most 3 times; a later candidate only after every
\* earlier one failed all its attempts; it returns at the first success with no
\* further attempt, and raises only after every candidate including gTTS failed.
C4_FallbackOrder ==
    LET cands == <<so_voice>> \o SelectSeq(CommonVoices, LAMBDA v : v # so_voice)
        edge == {i \in 1..Len(so_log) : so_log[i].cand # GTTS}
    IN  /\ so_log # <<>> => so_log[1].cand = so_voice
        /\ \A i \in 1..Len(so_log) :
              \/ so_log[i].cand = GTTS
              \/ \E k \in 1..Len(cands) : cands[k] = so_log[i].cand
        /\ \A i \in 1..Len(so_log), j \in 1..Len(so_log) :
              i < j => CandIndex(so_log[i].cand) <= CandIndex(so_log[j].cand)
        /\ \A k \in 1..Len(cands) :
              Cardinality({i \in edge : so_log[i].cand = cands[k]}) <= 3
        /\ Cardinality({i \in 1..Len(so_log) : so_log[i].cand = GTTS}) <= 1
        /\ \A j \in 1..Len(so_log) : \A k \in 1..Len(cands) :
              k < CandIndex(so_log[j].cand) =>
                  Cardinality(FailedBefore(cands[k], j - 1)) = 3
        /\ \A i \in 1..Len(so_log) : so_log[i].ok => i = Len(so_log)
        /\ so_pc = "returned" <=> (so_log # <<>> /\ so_log[Len(so_log)].ok)
        /\ so_pc = "raised" =>
              /\ \A k \in 1..Len(cands) :
                    Cardinality(FailedBefore(cands[k], Len(so_log))) = 3
              /\ Cardinality(FailedBefore(GTTS, Len(so_log))) = 1

\* every voice failed three times and gTTS failed: the call raised
C4_Witness ==
    /\ so_pc = "raised"
    /\ so_voice = "en-US-AriaNeural"
    /\ Len(so_log) = 13

----------------------------------------------------------------------------
(* Claims about tts_text_to_mp3_chunked *)

\* C1: every unit path returned by tts_text_to_mp3_chunked holds a file whose
\* size is at most MAX_BYTES, or whose text is shorter than MIN_SPLIT_CHARS,
\* whatever sizes the synthesized files have.
C1_UnitUnderCeilingOrShort ==
    tts_pc = "done" =>
        \A i \in 1..Len(part_files) :
            /\ part_files[i] \in DOMAIN tts_disk
            /\ \/ tts_disk[part_files[i]].size <= MAX_BYTES
               \/ Len(tts_disk[part_files[i]].text) < MIN_SPLIT_CHARS

\* a chunk was bisected, and a half under MIN_SPLIT_CHARS was kept over the ceiling
C1_Witness ==
    /\ tts_pc = "done"
    /\ tts_calls > Len(part_files)
    /\ \E i \in 1..Len(part_files) :
          /\ tts_disk[part_files[i]].size > MAX_BYTES
          /\ Len(tts_disk[part_files[i]].text) < MIN_SPLIT_CHARS
    /\ \E i \in 1..Len(part_files) : tts_disk[part_files[i]].size <= MAX_BYTES

\* C2: the list tts_text_to_mp3_chunked returns is exactly part_001, part_002,
\* ..., part_n in that order, after any sequence of keep, discard-and-bisect and
\* skip steps.
C2_ContiguousNumbers ==
    tts_pc = "done" => part_files = [i \in 1..Len(part_files) |-> i]

\* C5: when the synthesis of a chunk fails on every candidate, the position
\* contributes no unit, the failure is recorded in the run-level error list and
\* the call goes on with the remaining chunks.
C5_FailureSkippedAndRecorded ==
    tts_failures > 0 =>
        /\ tts_pc # "raised"
        /\ Len(run_errors) >= tts_failures

----------------------------------------------------------------------------
(* Claims about concat_mp3_with_transitions *)

\* the positions of the non-empty groups, in order
FilledGroups == {g \in 1..Len(groups) : groups[g] # <<>>}

\* C3: in the sequence handed to concatenation for N non-empty groups, the
\* transition cue occurs exactly N-1 times, each occurrence lies between the last
\* unit of one group and the first unit of the next non-empty group, no cue
\* follows the last group, and two neighbouring units belong to one group.
C3_CueBetweenGroups ==
    cc_seq # <<>> =>
        LET n == Len(cc_seq)
            cues == {i \in 1..n : cc_seq[i] = SFX}
        IN  /\ Cardinality(cues) = Cardinality(FilledGroups) - 1
            /\ cc_seq[1] # SFX
            /\ cc_seq[n] # SFX
            /\ \A i \in cues :
                  \E g \in FilledGroups, h \in FilledGroups :
                     /\ g < h
                     /\ \A m \in FilledGroups : ~(g < m /\ m < h)
                     /\ cc_seq[i - 1] = groups[g][Len(groups[g])]
                     /\ cc_seq[i + 1] = groups[h][1]
            /\ \A i \in 1..(n - 1) :
                  (cc_seq[i] # SFX /\ cc_seq[i + 1] # SFX) =>
                     \E g \in FilledGroups : \E k \in 1..(Len(groups[g]) - 1) :
                        cc_seq[i] = groups[g][k] /\ cc_seq[i + 1] = groups[g][k + 1]

\* three groups of which the middle one is empty and the last has two units:
\* one cue, between the two non-empty groups
C3_Witness ==
    /\ cc_pc = "done"
    /\ Len(groups) = 3
    /\ groups[2] = <<>>
    /\ Len(groups[3]) = 2
    /\ cc_seq = groups[1] \o <<SFX>> \o groups[3]

\* one non-empty group: no cue at all
C3_WitnessSingle ==
    /\ cc_pc = "done"
    /\ Cardinality(FilledGroups) = 1
    /\ \A i \in 1..Len(cc_seq) : cc_seq[i] # SFX

----------------------------------------------------------------------------
(* Claims about the timestamp map (run_daily.py, step 6) *)

\* the raw time before group k (1-based): the durations of the groups before it
\* and one cue after each of them, in milliseconds
RECURSIVE RawBefore(_)
RawBefore(k) == IF k <= 1 THEN 0 ELSE RawBefore(k - 1) + raw_durs[k - 1] + SFX_RAW

\* C8 as stated: the tempo-adjusted start of group k written to the timestamp map
\* equals (sum over j<k of (raw duration of group j + raw cue duration)) / tempo.
C8_StartIsExactQuotient ==
    items_file.reconstructed =>
        \A k \in 1..Len(items_file.timestamps) :
            items_file.timestamps[k] * PLAYBACK_ATEMPO = 10 * RawBefore(k)

\* C8: the start of group k written to the timestamp map is that quotient
\* rounded to a hundredth of a second: it differs from (sum over j<k of (raw
\* duration of group j + raw cue duration)) / tempo by at most 0.005 s, there is
\* one start per group, and group 0 starts at 0.
C8_StartIsRoundedQuotient ==
    items_file.reconstructed =>
        /\ Len(items_file.timestamps) = Len(groups)
        /\ \A k \in 1..Len(items_file.timestamps) :
              2 * Abs(items_file.timestamps[k] * PLAYBACK_ATEMPO - 10 * RawBefore(k))
                 <= PLAYBACK_ATEMPO
        /\ Len(items_file.timestamps) >= 1 => items_file.timestamps[1] = 0

\* two groups, the first of 10.01 s: (10.01 + 2.3) / 1.25 = 9.848 is written as 9.85
C8_Witness ==
    /\ items_file.reconstructed
    /\ raw_durs = <<10010, 15000>>
    /\ items_file.timestamps = <<0, 985>>

\* the entries of the written map whose segment resolved to a group
MappedEntries ==
    {i \in 1..Len(items_file.items) :
        items_file.items[i].segment \in DOMAIN raw_seg_to_group}

\* C9: for every item whose segment resolves to a group g, the timestamp written
\* for it lies in the closed interval [start(g), start(g) + tempo-adjusted
\* duration(g)], for every title and every segment text.
C9_TimestampInsideGroup ==
    items_file.reconstructed =>
        \A i \in MappedEntries :
            LET e == items_file.items[i]
                g == raw_seg_to_group[e.segment] + 1
            IN  /\ items_file.timestamps[g] <= e.timestamp
                /\ e.timestamp * PLAYBACK_ATEMPO
                      <= items_file.timestamps[g] * PLAYBACK_ATEMPO + 10 * raw_durs[g]

\* C10: for any two items a and b whose segment indices satisfy
\* segment(a) < segment(b), the timestamps written satisfy
\* timestamp(a) <= timestamp(b); read for the items that have a timestamp.
C10_TimestampsNonDecreasing ==
    items_file.reconstructed =>
        \A a \in MappedEntries, b \in MappedEntries :
            items_file.items[a].segment < items_file.items[b].segment =>
                items_file.items[a].timestamp <= items_file.items[b].timestamp

\* the raw segment index si is in range, its text is not empty and its synthesis
\* left at least one unit (a group holds units named after si)
ProducedAudio(si) ==
    /\ 0 <= si
    /\ si < Len(raw_segments_all)
    /\ raw_segments_all[si + 1] # <<>>
    /\ \E g \in 1..Len(groups) : groups[g] # <<>> /\ groups[g][1][1] = si

\* C11: an item's timestamp is the unavailable sentinel (-1) exactly when its
\* segment index has no entry in the raw-segment-to-group mapping, which is when
\* the segment was empty, produced zero units, or the index is -1 or out of
\* range; every item whose segment index is mapped gets a timestamp >= 0.
C11_SentinelIffUnmapped ==
    items_file.reconstructed =>
        \A i \in 1..Len(items_file.items) :
            LET e == items_file.items[i]
            IN  /\ (e.timestamp = -100) <=> (e.segment \notin DOMAIN raw_seg_to_group)
                /\ (e.segment \in DOMAIN raw_seg_to_group) <=> ProducedAudio(e.segment)
                /\ (e.segment \in DOMAIN raw_seg_to_group) => e.timestamp >= 0

\* the map holds an item of a segment that produced no units next to an item
\* placed inside the second group
C11_Witness ==
    /\ items_file.reconstructed
    /\ Len(raw_segments_all) = 2
    /\ DOMAIN raw_seg_to_group = {1}
    /\ raw_segments_all[1] # <<>>
    /\ Len(items_file.items) = 2
    /\ items_file.items[1].segment = 0
    /\ items_file.items[1].timestamp = -100
    /\ items_file.items[2].segment = 1
    /\ items_file.items[2].timestamp > 0

\* C12: groups are built in segment submission order and the raw-segment-to-group
\* mapping is strictly increasing; the mapped group indices are exactly
\* 0..len(groups)-1; and the group of a mapped raw index holds the units of that
\* very segment, whatever segments before it were dropped.
C12_GroupsKeepSegmentOrder ==
    run_pc # "idle" =>
        /\ \A i \in DOMAIN raw_seg_to_group, j \in DOMAIN raw_seg_to_group :
              i < j => raw_seg_to_group[i] < raw_seg_to_group[j]
        /\ {raw_seg_to_group[i] : i \in DOMAIN raw_seg_to_group} = 0..(Len(groups) - 1)
        /\ \A g \in 1..Len(groups) : groups[g] # <<>>
        /\ \A g \in 1..Len(groups), h \in 1..Len(groups) :
              g < h => groups[g][1][1] < groups[h][1][1]
        /\ \A i \in DOMAIN raw_seg_to_group :
              /\ i \in 0..(seg_i - 1)
              /\ raw_segments_all[i + 1] # <<>>
              /\ \A k \in 1..Len(groups[raw_seg_to_group[i] + 1]) :
                    groups[raw_seg_to_group[i] + 1][k] = <<i, k>>

\* the first segment was dropped and the second one, raw index 1, is group 0
C12_Witness ==
    /\ run_pc = "segments"
    /\ seg_i = 2
    /\ DOMAIN raw_seg_to_group = {1}
    /\ raw_seg_to_group[1] = 0
    /\ Len(groups) = 1

----------------------------------------------------------------------------
(* Claims about failures of the assembly *)

\* C13: concat_mp3_with_transitions raises when the group list is empty or
\* contains only empty groups, and it does so before generating the cue, writing
\* the concat list or writing any output file.
C13_RaisesBeforeAnyOutput ==
    (cc_pc \in {"raised", "done"} /\ FilledGroups = {}) =>
        /\ cc_pc = "raised"
        /\ cc_seq = <<>>
        /\ cc_files = NoOutput

\* a list of two empty groups made the call raise
C13_Witness ==
    /\ cc_pc = "raised"
    /\ Len(groups) = 2
    /\ FilledGroups = {}
    /\ cc_files = NoOutput

\* C14: if the concatenation call or a part cutting call fails, or the group list
\* is empty, the run aborts with no output written: no final audio file, no
\* distribution part and no timestamp map with reconstructed offsets exists on
\* disk after the failure.
C14_NoOutputAfterFailure ==
    (run_pc = "concat" /\ cc_pc = "raised" /\ (cc_files.list \/ FilledGroups = {})) =>
        /\ ~cc_files.out
        /\ ~cc_files.parts
        /\ ~(items_file.reconstructed /\ items_file.timestamps # <<>>)

----------------------------------------------------------------------------
(* Claims about _split_mp3_into_size_limited_parts *)

\* C15 as stated: every distribution part cut from a stream larger than the
\* target has size <= target_bytes, for any sizes the cutting tool produces for
\* the requested time windows.
C15_PartsUnderTarget ==
    (sp_pc = "done" /\ sp_size > TARGET_BYTES /\ seg_dur > 0) =>
        \A k \in 1..Len(out_files) : ~out_files[k].over

\* the estimate after n cuts of 8 percent each
RECURSIVE ShortenedTimes(_, _)
ShortenedTimes(d, n) == IF n = 0 THEN d ELSE ShortenedTimes((d * 92) \div 100, n - 1)

\* C15: a distribution part cut from a stream larger than the target has
\* size <= target_bytes unless the first cut of its window and all 8 shortened
\* cuts after it came out over the target: only the ninth cut, of the estimate
\* times 0.92^8, is returned over the target.
C15_PartsUnderTargetOrRetriesSpent ==
    (sp_size > TARGET_BYTES /\ seg_dur > 0) =>
        \A k \in 1..Len(out_files) :
            out_files[k].over => out_files[k].dur = ShortenedTimes(seg_dur, 8)

\* a part accepted under the target after one retry, then a part returned over
\* the target after the retries were spent
C15_Witness ==
    /\ sp_pc = "done"
    /\ Len(out_files) >= 2
    /\ ~out_files[1].over
    /\ out_files[1].dur = ShortenedTimes(seg_dur, 1)
    /\ out_files[2].over

\* the audio a part holds: its window, cut off at the end of the stream
PartAudio(part) == Min2(part.start + part.dur, sp_duration) - part.start

RECURSIVE SumAudio(_)
SumAudio(parts) == IF parts = <<>> THEN 0 ELSE PartAudio(Head(parts)) + SumAudio(Tail(parts))

\* C16: the time windows of the distribution parts are contiguous and do not
\* overlap: the first part starts at offset 0, each later part starts exactly
\* where the accepted cut of the previous part ended (also after a
\* shrink-and-retry), every part starts inside the stream, and on return the
\* windows cover the stream up to within 0.01 s of its end, so the audio of the
\* parts sums to the total duration within one cue length.
C16_WindowsContiguous ==
    seg_dur > 0 =>
        /\ \A k \in 1..Len(out_files) :
              /\ out_files[k].dur > 0
              /\ out_files[k].start < sp_duration - 10
              /\ out_files[k].start =
                    (IF k = 1 THEN 0 ELSE out_files[k - 1].start + out_files[k - 1].dur)
        /\ sp_t = (IF out_files = <<>> THEN 0
                   ELSE out_files[Len(out_files)].start + out_files[Len(out_files)].dur)
        /\ sp_pc = "done" =>
              /\ out_files # <<>>
              /\ sp_t >= sp_duration - 10
              /\ Abs(SumAudio(out_files) - sp_duration) <= 10
              /\ Abs(SumAudio(out_files) - sp_duration) <= SFX_RAW

\* a stream of 2.5 s returned in at least three parts, the first of them
\* accepted after a shrink-and-retry
C16_Witness ==
    /\ sp_pc = "done"
    /\ sp_duration = 2500
    /\ Len(out_files) >= 3
    /\ out_files[1].dur < seg_dur
    /\ out_files[2].start = out_files[1].dur

----------------------------------------------------------------------------
(* Claims about the recursion of generate_with_size_limit *)

\* a step that replaced the text on top of the pending texts by its two halves
IsBisection == tts_stack # <<>> /\ Len(tts_stack') = Len(tts_stack) + 1

\* C17: recursive splitting terminates: for every chunk text and every assignment
\* of synthesized sizes, the call makes finitely many synthesis calls and
\* returns (or raises), because no text shorter than MIN_SPLIT_CHARS is ever
\* bisected and every bisection yields two non-empty halves strictly shorter
\* than the parent.
C17_SplittingTerminates ==
    /\ [][IsBisection =>
             /\ Len(Head(tts_stack)) >= MIN_SPLIT_CHARS
             /\ \A h \in 1..2 : /\ Len(tts_stack'[h]) > 0
                                /\ Len(tts_stack'[h]) < Len(Head(tts_stack))]_vars
    /\ <>(tts_pc # "gen")

\* the call returned although every synthesis came out over the ceiling: texts
\* were bisected until they were shorter than MIN_SPLIT_CHARS
C17_Witness ==
    /\ tts_pc = "done"
    /\ tts_calls >= 7
    /\ tts_calls > Len(part_files)
    /\ \A n \in DOMAIN tts_disk : tts_disk[n].size > MAX_BYTES

\* C18: when a synthesized unit is over MAX_BYTES and its source text is shorter
\* than MIN_SPLIT_CHARS, the unit is accepted into the returned list with its
\* sequence number and the event is recorded as a warning for the run's error
\* report.
C18_OversizeAcceptedWithWarning ==
    \A k \in 1..Len(part_files) :
        (/\ part_files[k] \in DOMAIN tts_disk
         /\ tts_disk[part_files[k]].size > MAX_BYTES
         /\ Len(tts_disk[part_files[k]].text) < MIN_SPLIT_CHARS)
            => run_errors # <<>>

----------------------------------------------------------------------------
(* Claims about the concatenation command *)

\* the options that select the audio codec of the output
CodecOptions == {"-c", "-c:a", "-codec", "-codec:a", "-acodec"}

\* the command copies the audio stream: its codec option names copy
IsStreamCopy(cmd) ==
    /\ \E i \in 1..(Len(cmd) - 1) : cmd[i] \in CodecOptions
    /\ \A i \in 1..(Len(cmd) - 1) : cmd[i] \in CodecOptions => cmd[i + 1] = "copy"

\* C19: the concatenation step invokes the external tool in lossless stream-copy
\* mode (no re-encoding of the units or the cue); the units and the cue are MP3
\* files and so is the target, so the formats match in every call.
C19_ConcatIsStreamCopy ==
    cc_cmd # <<>> => IsStreamCopy(cc_cmd)

----------------------------------------------------------------------------
(* Claims about one bisection *)

\* the stripped text was cut in two pieces, each stripped, the left one first:
\* a is the start of the text, b is its end, and only whitespace lies between
IsLeftThenRight(text, a, b) ==
    /\ a # <<>>
    /\ b # <<>>
    /\ Len(a) + Len(b) <= Len(text)
    /\ a = SubSeq(text, 1, Len(a))
    /\ b = SubSeq(text, Len(text) - Len(b) + 1, Len(text))
    /\ a[Len(a)] \notin Whitespace
    /\ b[1] \notin Whitespace
    /\ \A i \in (Len(a) + 1)..(Len(text) - Len(b)) : text[i] \in Whitespace

\* the call was made for a text of a single chunk of at least MIN_SPLIT_CHARS
\* characters, and it ended with two different files at or under the ceiling
\* that hold the left and the right piece of that chunk
BisectedOnce ==
    /\ tts_pc = "done"
    /\ Len(Strip(tts_text)) >= MIN_SPLIT_CHARS
    /\ \E n \in DOMAIN tts_disk, m \in DOMAIN tts_disk :
          /\ n # m
          /\ tts_disk[n].size <= MAX_BYTES
          /\ tts_disk[m].size <= MAX_BYTES
          /\ IsLeftThenRight(Strip(tts_text), tts_disk[n].text, tts_disk[m].text)
    /\ Len(chunk_text(tts_text, chunk_chars)) = 1

\* C20: if a chunk of length >= MIN_SPLIT_CHARS first synthesizes over the
\* ceiling and each of its two halves synthesizes at or under the ceiling, the
\* generator bisects exactly once (3 synthesis calls in total), the oversized
\* file is gone, and exactly two units are returned, numbered k and k+1 where k
\* is the number the discarded unit had held, the left half before the right
\* half. A bisection step never moves the counter, whatever k is.
C20_BisectsOnceIntoTwoUnits ==
    /\ [](BisectedOnce =>
             /\ tts_calls = 3
             /\ counter = 2
             /\ part_files = <<1, 2>>
             /\ DOMAIN tts_disk = {1, 2}
             /\ IsLeftThenRight(Strip(tts_text), tts_disk[1].text, tts_disk[2].text))
    /\ [][IsBisection =>
             /\ counter' = counter
             /\ part_files' = part_files
             /\ tts_calls' = tts_calls + 1
             /\ IsLeftThenRight(Head(tts_stack), tts_stack'[1], tts_stack'[2])
             /\ Tail(Tail(tts_stack')) = Tail(tts_stack)]_vars

\* the paragraph with a sentence end near its middle came out over the ceiling
\* and was returned as two units, cut after the sentence end
C20_Witness ==
    /\ BisectedOnce
    /\ Len(tts_text) = 502
    /\ tts_calls = 3
    /\ part_files = <<1, 2>>
    /\ Len(tts_disk[1].text) = 301
    /\ Len(tts_disk[2].text) = 200

----------------------------------------------------------------------------
(* Claims about the position of an item inside its segment *)

\* the first 4 title words of at least 5 letters that are not stop words
TitleKeywords(title) ==
    LET found == SelectSeq(FindWords(title), LAMBDA w : Lower(w) \notin STOP)
    IN  [k \in 1..Min2(4, Len(found)) |-> Lower(found[k])]

\* the 0-based positions of the source text at which w occurs, letter case aside
SourcePositions(text, w) ==
    {i \in 0..(Len(text) - 1) :
        LET rest == Lower(SubSeq(text, i + 1, Len(text)))
        IN  Len(rest) >= Len(w) /\ SubSeq(rest, 1, Len(w)) = w}

\* the smallest first-occurrence position in the source text of any keyword,
\* or -1 when there is none
FirstKeywordPosition(title, text) ==
    LET kw == TitleKeywords(title)
        hits == UNION {SourcePositions(text, kw[k]) : k \in 1..Len(kw)}
    IN  IF hits = {} THEN -1 ELSE SetMin(hits)

\* C21: for a mapped item, timestamp = group start + (p / length of the segment
\* text) * (group raw duration / tempo), to the hundredth of a second, where p is
\* the smallest first-occurrence position (case-insensitive) in the segment's
\* source text of any of the first 4 title keywords; if no keyword occurs the
\* timestamp equals the group start.
C21_TimestampFromKeywordPosition ==
    items_file.reconstructed =>
        \A i \in MappedEntries :
            LET e == items_file.items[i]
                g == raw_seg_to_group[e.segment] + 1
                text == raw_segments_all[e.segment + 1]
                pos == FirstKeywordPosition(e.title, text)
                den == Len(text) * PLAYBACK_ATEMPO
            IN  IF pos < 0
                THEN e.timestamp = items_file.timestamps[g]
                ELSE 2 * Abs(e.timestamp * den
                             - (items_file.timestamps[g] * den + 10 * pos * raw_durs[g]))
                        <= den

----------------------------------------------------------------------------
(* Claims about _pick_split_point *)

\* the 0-based indices of the punctuation characters of the text in lo..hi
StopsBetween(text, lo, hi) == {i \in lo..hi : text[i + 1] \in SPLIT_PUNCT}

\* C22 as stated: for a text of length n >= 2 the cut is in [1, n-1]; if a
\* punctuation character (other than the last character of the text) lies within
\* distance w = min(600, n // 3) of the midpoint n // 2, bounds included, the cut
\* is immediately after a punctuation character nearest to the midpoint;
\* otherwise the cut is exactly the midpoint.
C22_CutAfterNearestWithinWindow ==
    (pk_pc = "done" /\ Len(pk_text) >= 2) =>
        LET n == Len(pk_text)
            mid == n \div 2
            w == IF n \div 3 < 600 THEN n \div 3 ELSE 600
            near == StopsBetween(pk_text, Max2(0, mid - w), Min2(n - 2, mid + w))
        IN  /\ pk_cut \in 1..(n - 1)
            /\ IF near = {} THEN pk_cut = mid
               ELSE \E i \in near : /\ \A j \in near : Abs(i - mid) <= Abs(j - mid)
                                    /\ pk_cut = i + 1

\* C22: for a text of length n >= 2 the cut is in [1, n-1]; if a punctuation
\* character lies at an index i with mid - w <= i < mid + w and 1 <= i < n - 1,
\* for w = min(600, n // 3) and mid = n // 2, the cut is immediately after the
\* one nearest to the midpoint, the earlier one of two at the same distance;
\* otherwise the cut is exactly the midpoint.
C22_CutAfterNearestInHalfOpenWindow ==
    (pk_pc = "done" /\ Len(pk_text) >= 2) =>
        LET n == Len(pk_text)
            mid == n \div 2
            w == IF n \div 3 < 600 THEN n \div 3 ELSE 600
            near == StopsBetween(pk_text, Max2(1, mid - w), Min2(n - 2, mid + w - 1))
        IN  /\ pk_cut \in 1..(n - 1)
            /\ IF near = {} THEN pk_cut = mid
               ELSE \E i \in near :
                       /\ \A j \in near : Abs(i - mid) < Abs(j - mid)
                                          \/ (Abs(i - mid) = Abs(j - mid) /\ i <= j)
                       /\ pk_cut = i + 1

\* a text of 2000 letters whose only full stop is at index 400, the first index
\* of the window of 600 around the midpoint 1000: the cut is after it
C22_Witness ==
    /\ pk_pc = "done"
    /\ pk_text = LongWithStopAt(400)
    /\ pk_cut = 401

\* a text of 7 characters with full stops on both sides of the midpoint at the
\* same distance: the cut is after the earlier one
C22_WitnessTie ==
    /\ pk_pc = "done"
    /\ pk_text = <<"a", "a", ".", "a", ".", "a", "a">>
    /\ pk_cut = 3

----------------------------------------------------------------------------
(* Claims about the cuts of chunk_text *)

\* the positions of the sentence-ending marks of the text
Terminators(text) == {j \in 1..Len(text) : text[j] \in SentenceEnd}

\* the text has sentence-ending marks, every sentence has at least one
\* character that is neither blank nor a mark, and every sentence together with
\* its mark (and the text after the last mark) is at most max_chars long
SentencesFit(text, max_chars) ==
    LET terms == Terminators(text)
        before(j) == SetMax({k \in terms : k < j} \cup {0})
    IN  /\ terms # {}
        /\ \A j \in terms :
              /\ j - before(j) <= max_chars
              /\ \E i \in (before(j) + 1)..(j - 1) : text[i] \notin Whitespace
        /\ Len(text) - SetMax(terms) <= max_chars

\* C23: when chunk_text splits text containing sentence-ending punctuation in
\* which every sentence together with its terminator fits in max_chars, every
\* cut falls immediately after a sentence-ending mark: each chunk except
\* possibly the last ends with such a mark and no chunk begins with one.
C23_CutsAfterSentenceEnd ==
    (ct_pc = "done" /\ SentencesFit(ct_text, ct_max)) =>
        /\ \A k \in 1..(Len(ct_out) - 1) : ct_out[k][Len(ct_out[k])] \in SentenceEnd
        /\ \A k \in 1..Len(ct_out) : ct_out[k][1] \notin SentenceEnd


----------------------------------------------------------------------------
(* Claims about the cuts made for one part *)

\* the runs of the cutting tool for the part numbered p, in order
CutsOf(p) == SelectSeq(cuts, LAMBDA c : c.part = p)

\* C24: for each part the cutting tool runs once at the estimated duration and
\* then at most 8 more times, every time from the same start offset and with
\* 0.92 of the previous duration, and only after a cut that came out over the
\* target; an accepted part is the last cut made, which is within the target
\* unless it is the 8th re-cut; the next part starts at the previous start
\* plus the duration of that last cut
C24_RecutsFromSameStart ==
    seg_dur > 0 =>
        \A p \in 1..(Len(out_files) + 1) :
            LET cs == CutsOf(p)
                prev == CutsOf(p - 1)
            IN  /\ p <= Len(out_files) => cs # <<>>
                /\ cs # <<>> =>
                      /\ Len(cs) <= 9
                      /\ cs[1].t = seg_dur
                      /\ \A i \in 2..Len(cs) :
                            /\ cs[i].ss = cs[1].ss
                            /\ cs[i].t = (cs[i - 1].t * 92) \div 100
                            /\ cs[i - 1].over
                      /\ p <= Len(out_files) =>
                            /\ ~cs[Len(cs)].over \/ Len(cs) = 9
                            /\ out_files[p].start = cs[1].ss
                            /\ out_files[p].dur = cs[Len(cs)].t
                      /\ p > 1 => cs[1].ss = prev[Len(prev)].ss + prev[Len(prev)].t

\* a part was accepted after its 8th re-cut and the next part has been cut
C24_Witness ==
    /\ Len(out_files) >= 1
    /\ Len(CutsOf(1)) = 9
    /\ CutsOf(2) # <<>>
    /\ CutsOf(2)[1].ss = CutsOf(1)[9].t
    /\ CutsOf(2)[1].ss < seg_dur

----------------------------------------------------------------------------
(* Claims about the waits of _save_one *)

\* C25: the waits after the failed attempts 1, 2, 3 of one candidate are
\* d, d*r, d*r*r for a fixed r > 1: each wait is longer than the one before
\* and the ratio of consecutive waits is the same.
C25_DelaysGeometric ==
    \A i \in 1..Len(so_sleeps) :
        (i % 3 = 0) =>
            /\ so_sleeps[i - 2] < so_sleeps[i - 1]
            /\ so_sleeps[i - 1] < so_sleeps[i]
            /\ so_sleeps[i - 1] * so_sleeps[i - 1] = so_sleeps[i - 2] * so_sleeps[i]

----------------------------------------------------------------------------
(* Claims about the seen store and the fetch pool *)

\* ids of the ranked items that have a url
RankedIds ==
    {_url_id(ranked[i].url) : i \in {k \in 1..Len(ranked) : Strip(ranked[k].url) # <<>>}}

\* collected items with a url that is the url of no ranked item
RunnersUp ==
    {i \in 1..Len(items) :
        /\ Strip(items[i].url) # <<>>
        /\ \A k \in 1..Len(ranked) : Strip(ranked[k].url) # Strip(items[i].url)}

\* C26: after a run without REGEN_FROM_CACHE the seen store is the store
\* before the run plus the ids of the urls of the ranked items, and a
\* collected item that was not ranked and was not in the store before is not
\* in it after; until the ranked items are marked the store is as it was; in
\* a run with REGEN_FROM_CACHE the store is never modified and never saved.
C26_SeenStoreGainsRankedOnly ==
    /\ (co_pc = "done" /\ ~REGEN_FROM_CACHE) =>
          /\ seen_file = [exists |-> TRUE, valid |-> TRUE, ids |-> seen_before \cup RankedIds]
          /\ seen_saves = 1
          /\ \A i \in RunnersUp :
                _url_id(items[i].url) \notin seen_before =>
                    _url_id(items[i].url) \notin seen_file.ids
    /\ (co_pc # "done" \/ REGEN_FROM_CACHE) =>
          /\ seen_saves = 0
          /\ seen_ids = seen_before
          /\ SeenStoreInit(seen_file) = seen_before

\* two papers were collected and analyzed, only the second was ranked, and the
\* saved store holds the id of the second only
C26_Witness ==
    /\ co_pc = "done"
    /\ ~REGEN_FROM_CACHE
    /\ seen_before = {}
    /\ Len(candidates) = 2
    /\ Len(ranked) = 1
    /\ ranked[1].url = UrlB
    /\ seen_file.ids = {_url_id(UrlB)}
    /\ RunnersUp # {}

\* futures whose result the main thread has taken
Yielded == {i \in 1..Len(futures) : futures[i].yielded}

\* C30: whatever the order in which the workers finish and whichever of them
\* raise, each candidate is in new_items exactly once after its future was
\* taken and not before, as the item its worker left (without analysis when
\* the worker raised); there is exactly one error string per failed worker
\* taken; when the pass is over every candidate was taken.
C30_EachCandidateOnce ==
    co_pc \in {"fetch", "rank", "mark", "done"} =>
        /\ Len(futures) = Len(candidates)
        /\ \A i \in 1..Len(futures) :
              LET occ == {k \in 1..Len(new_items) :
                             Strip(new_items[k].url) = Strip(candidates[i].url)}
                  errs == {k \in 1..Len(run_errors) :
                              run_errors[k] = FetchError(candidates[i])}
              IN  /\ Cardinality(occ) = (IF i \in Yielded THEN 1 ELSE 0)
                  /\ Cardinality(errs) =
                        (IF i \in Yielded /\ futures[i].st = "raised" THEN 1 ELSE 0)
                  /\ \A k \in occ :
                        /\ new_items[k] = futures[i].it
                        /\ new_items[k].state = "analyzed" <=> futures[i].st = "done"
        /\ Len(run_errors) = Cardinality({i \in Yielded : futures[i].st = "raised"})
        /\ co_pc = "fetch" =>
              Len(new_items) =
                  Len(FirstPass(items, seen_before, DEBUG_MODE, {}, <<>>, <<>>).new_items)
                      + Cardinality(Yielded)
        /\ co_pc # "fetch" => Yielded = 1..Len(futures)

\* the second candidate finished first and the first one raised
C30_Witness ==
    /\ co_pc = "rank"
    /\ Len(candidates) = 2
    /\ futures[1].st = "raised"
    /\ futures[2].st = "done"
    /\ Len(new_items) = 2
    /\ new_items[1] = futures[2].it
    /\ new_items[2] = futures[1].it
    /\ run_errors = <<FetchError(candidates[1])>>

----------------------------------------------------------------------------
(* Claims about the texts of the returned units *)

\* a text without its whitespace
Squeeze(text) == SelectSeq(text, LAMBDA c : c \notin Whitespace)

\* the texts of the units appended so far, in the order of part_files
UnitTexts == [k \in 1..Len(part_files) |-> tts_disk[part_files[k]].text]

\* no synthesis raised and no synthesized file was missing: every number the
\* counter reached belongs to a unit of part_files
NoSynthesisFailed == tts_pc # "raised" /\ counter = Len(part_files)

\* C27: when no synthesis fails, the texts of the units returned, in the order
\* of their numbers and with whitespace removed, concatenate to the input text
\* with whitespace removed; at every moment the units appended so far, the
\* halves still to be synthesized and the chunks still to come make up the
\* input in this order, so that the units of a left half are numbered before
\* the units of the right half.
C27_UnitsCoverTextInOrder ==
    NoSynthesisFailed =>
        /\ \A k \in 1..Len(part_files) : part_files[k] \in DOMAIN tts_disk
        /\ \A k \in 1..(Len(part_files) - 1) : part_files[k] < part_files[k + 1]
        /\ Squeeze(Concat(UnitTexts) \o Concat(tts_stack) \o Concat(tts_queue))
              = Squeeze(tts_text)

\* a paragraph with a sentence end and a second paragraph were both bisected
\* and the call returned four units
C27_Witness ==
    /\ tts_pc = "done"
    /\ NoSynthesisFailed
    /\ Len(part_files) = 4
    /\ tts_calls = 6
    /\ tts_disk[part_files[1]].text = Rep("a", 300) \o <<".">>
    /\ tts_disk[part_files[2]].text = Rep("b", 200)

----------------------------------------------------------------------------
(* Claims relating the timestamp walk to the assembled sequence *)

\* the raw duration of one element of seq: a unit as probed, the cue at _SFX_RAW
ElementDur(e) == IF e = SFX THEN SFX_RAW ELSE unit_dur[e]

RECURSIVE SeqDur(_)
SeqDur(seq) == IF seq = <<>> THEN 0 ELSE ElementDur(Head(seq)) + SeqDur(Tail(seq))

\* the elements of the assembled sequence before the first unit of group k
BeforeGroup(k) ==
    LET first == CHOOSE i \in 1..Len(cc_seq) : cc_seq[i] # SFX /\ cc_seq[i] = groups[k][1]
    IN  SubSeq(cc_seq, 1, first - 1)

\* C28: once the sequence is assembled, the raw start the walk uses for group k
\* is the sum of the raw durations of the elements of the sequence before the
\* first unit of group k, which are the units of the groups before k and one
\* cue per group before k; no group handed to the assembly is empty, and the
\* written start of group k is that raw start at the playback tempo.
C28_WalkMatchesSequence ==
    (run_pc = "concat" /\ cc_pc = "done") =>
        /\ NonEmpty(groups) = groups
        /\ \A k \in 1..Len(groups) :
              LET before == BeforeGroup(k)
                  cues == {i \in 1..Len(before) : before[i] = SFX}
                  start == RawStarts(raw_durs, 0, 0)[k]
              IN  /\ start = SeqDur(before)
                  /\ Cardinality(cues) = k - 1
                  /\ {before[i] : i \in (1..Len(before)) \ cues}
                        = UnitSet(SubSeq(groups, 1, k - 1))
                  /\ group_ts[k] = GroupStart(start)

\* two groups, the first of two units of 10.01 s and 15 s: the second group
\* starts after both units and one cue
C28_Witness ==
    /\ run_pc = "concat"
    /\ cc_pc = "done"
    /\ Len(groups) = 2
    /\ Len(groups[1]) = 2
    /\ raw_durs[1] = 25010
    /\ RawStarts(raw_durs, 0, 0)[2] = 27310
    /\ Len(BeforeGroup(2)) = 3

----------------------------------------------------------------------------
(* Claims about the end of the part-cutting loop *)

\* a step that appends a part
IsAccept == sp_pc = "retry" /\ Len(out_files') = Len(out_files) + 1

\* C29: the part-cutting loop ends for every stream of positive duration and
\* every choice of sizes the cutting tool makes: the estimated duration is at
\* least 1.0 s, every appended part moves the start offset forward by at least
\* the estimate shortened 8 times by 0.92, which is positive, and the call
\* leaves the loop.
C29_CuttingTerminates ==
    /\ [][IsAccept =>
             /\ seg_dur >= 1000
             /\ sp_t' - sp_t >= ShortenedTimes(seg_dur, 8)
             /\ ShortenedTimes(seg_dur, 8) > 0
             /\ sp_t' > sp_t]_vars
    /\ <>(sp_pc \in {"done", "raised"})

\* the call returned after every part came out over the target on each of its
\* nine cuts
C29_Witness ==
    /\ sp_pc = "done"
    /\ Len(out_files) >= 4
    /\ Len(cuts) = 9 * Len(out_files)
    /\ \A p \in 1..Len(out_files) : out_files[p].dur = ShortenedTimes(seg_dur, 8)

========================================================================
